---- MODULE Spec2Model ----
(***************************************************************************)
(* State-machine model of anomaly-times: the check-load-or-fit-save        *)
(* protocol of the forecast task (flows/forecasting.py load_and_predict    *)
(* and models/utils.py run_stateful_model), the model backends' save and   *)
(* load, the label codec of core/reader.py and core/writer.py, the panel   *)
(* read_metric builds, the joins of flows/detection.py, the scoring of     *)
(* core/anomaly.py, the requests forecast_flow and detect_anomalies_flow   *)
(* make to the TSDB, and the ingestion of scripts/load_boom.py.            *)
(***************************************************************************)
EXTENDS Integers, Sequences, FiniteSets, TLC

VARIABLES
    now,      \* wall clock, in hours (datetime.now(timezone.utc))
    store,    \* artifact store: storage key -> artifact (fsspec filesystem)
    run,      \* per forecast run: the locals of load_and_predict / run_stateful_model
    labels,   \* label codec: the label set of the row being encoded
    uid,      \* label codec: the unique_id string, a sequence of characters
    decoded,  \* label codec: what write_metric's parse_labels returned
    cstep,    \* label codec: position in encode -> decode
    fetch,    \* panel: the series a TSDB read returned, one metric dict each
    panel,    \* panel: the unique_id read_metric gave each of them
    written,  \* panel: the series the forecast run's write_metric sent to the TSDB
    readback, \* panel: the unique_ids the detection run computes for those series
    pstep,    \* panel: position in read -> write -> read back
    target,   \* ingestion: row['target'] of the input row of load_boom.py
    values,   \* process_single_series: the value array given
    step_seconds, \* process_single_series: the step between two positions
    pos,      \* process_single_series: the position the loop is at, from 1
    current_ts, \* process_single_series: the time of that position, in ms
    vm_timestamps, \* process_single_series: the timestamps appended so far
    vm_values, \* process_single_series: the values appended so far
    nan_count, \* process_single_series: the missing values counted so far
    batch,    \* write_metric: the unique_id column of the frame to write
    label_dicts, \* write_metric: what parse_labels returned, row by row
    df_columns, \* write_metric: the columns of the frame given, in order
    metric_name, \* write_metric: the metric_name argument
    csv_values, \* write_metric: the value column of export_df, row by row
    wstep,    \* write_metric: position in value column -> parse rows -> labels frame
    extra_labels, \* write_metric: the extra_labels argument
    csv_rows, \* write_metric: the label columns of export_df, row by row
    real_df,  \* detection: the realtime panel
    pred_df,  \* detection: the panel read under anomaly_pred
    lower_df, \* detection: the panel read under anomaly_lower
    upper_df, \* detection: the panel read under anomaly_upper
    forecast_full, \* detection: the outer merge of pred, lower, upper
    merged,   \* detection: the inner merge of realtime with forecast_full
    scored,   \* detection: what calculate_anomaly_score returned
    export_df, \* detection: the frame given to write_metric
    dpc,      \* detection: position in detect_anomalies_flow
    srow,     \* scoring: the row given to score_row
    score,    \* scoring: what score_row returned
    sstep,    \* scoring: position
    fpc,      \* forecast_flow: position in the flow
    io        \* the flows: the TSDB requests made so far, in order

cacheVars == <<now, store, run>>
codecVars == <<labels, uid, decoded, cstep>>
sampleVars == <<values, step_seconds, pos, current_ts, vm_timestamps, vm_values, nan_count>>
panelVars == <<fetch, panel, written, readback, pstep, target, sampleVars>>
writeVars == <<batch, label_dicts, wstep, extra_labels, csv_rows,
               df_columns, metric_name, csv_values>>
detectVars == <<real_df, pred_df, lower_df, upper_df, forecast_full, merged, scored, export_df, dpc>>
scoreVars == <<srow, score, sstep>>
flowVars == <<fpc, io>>
dataVars == <<panelVars, writeVars, detectVars, scoreVars, flowVars>>
vars == <<cacheVars, codecVars, dataVars>>

\* the parts of the state a specification does not use stay at these values
SampleOff ==
    /\ values = <<>>
    /\ step_seconds = 0
    /\ pos = 0
    /\ current_ts = 0
    /\ vm_timestamps = <<>>
    /\ vm_values = <<>>
    /\ nan_count = 0

PanelOff ==
    /\ fetch = <<>>
    /\ panel = <<>>
    /\ written = <<>>
    /\ readback = <<>>
    /\ pstep = "off"
    /\ target = <<>>
    /\ SampleOff

WriteOff ==
    /\ batch = <<>>
    /\ label_dicts = <<>>
    /\ wstep = "off"
    /\ extra_labels = <<>>
    /\ csv_rows = <<>>
    /\ df_columns = <<>>
    /\ metric_name = <<>>
    /\ csv_values = <<>>

DetectOff ==
    /\ real_df = <<>>
    /\ pred_df = <<>>
    /\ lower_df = <<>>
    /\ upper_df = <<>>
    /\ forecast_full = <<>>
    /\ merged = <<>>
    /\ scored = <<>>
    /\ export_df = <<>>
    /\ dpc = "off"

ScoreOff ==
    /\ srow = <<>>
    /\ score = <<>>
    /\ sstep = "off"

FlowOff ==
    /\ fpc = "off"
    /\ io = <<>>

-----------------------------------------------------------------------------
(* Bounds of the model.                                                    *)

\* how many hours the clock advances during a behaviour
MaxTicks == 2
\* how many separate writes one save of an artifact takes
NChunks == 2
\* how many times in a row a deployment's forecast task is called
MaxCalls == 2
\* how many label columns a fetched row has at most
MaxLabels == 2
\* how many characters a label value has at most
MaxValLen == 2

-----------------------------------------------------------------------------
(* The artifact store and the clock.                                       *)

\* fit_expiration_hours: int = 24
DefaultExpirationHours == 24

\* the clock starts late enough for an artifact of age 23h to exist
StartTime == DefaultExpirationHours + 1
EndTime == StartTime + MaxTicks

\* an expiration longer than the time since the epoch
LongExpirationHours == EndTime + 1

\* the expirations the runs are called with: the default, a short one and a
\* long one
Expirations == {DefaultExpirationHours, 1, LongExpirationHours}

\* the mtime of an artifact that is 23 hours old when the clock starts
OldMtime == StartTime - (DefaultExpirationHours - 1)

\* r1 and r2 are the forecast tasks of two deployments
Runs == {"r1", "r2"}
Keys == {"k1"}
NoPath == "None"

\* what one write of a save puts in the file: who wrote it, with which class
Chunk(w, c) == [w |-> w, cls |-> c]
EmptyChunk == Chunk("empty", "empty")
OldChunk == Chunk("old", "any")

NoArtifact == [exists |-> FALSE, chunks |-> [i \in 1..NChunks |-> EmptyChunk], mtime |-> 0]
OldArtifact == [exists |-> TRUE, chunks |-> [i \in 1..NChunks |-> OldChunk], mtime |-> OldMtime]

\* the file holds the complete output of one save
Intact(a) ==
    /\ a.exists
    /\ a.chunks[1].w # "empty"
    /\ \A i \in 1..NChunks : a.chunks[i] = a.chunks[1]

\* age_hours = (datetime.now(timezone.utc) - last_modified).total_seconds() / 3600
AgeHours(a) == now - a.mtime

\* age_hours < fit_expiration_hours
IsFreshAtExpiration(a, exp) == AgeHours(a) <= exp
IsFresh(a, exp) == AgeHours(a) < exp

-----------------------------------------------------------------------------
(* The model classes.                                                      *)

\* the model types load_and_predict's selector knows
ShippedTypes == {"arima", "lgbm", "timesnet", "chronos"}
\* a BaseModel subclass other than the shipped ones, given to run_stateful_model
CustomType == "custom"
UnknownType == "unknown"

\* the (function, model class) pairs a call can be made with
CallKinds ==
    ({"load_and_predict"} \X (ShippedTypes \cup {UnknownType}))
    \cup ({"run_stateful_model"} \X {"arima", CustomType})

\* the calls of two deployments that run at the same time: each with a storage
\* key, the default expiration and a class whose save writes
RaceKinds == {<<"load_and_predict", "arima">>, <<"run_stateful_model", CustomType>>}

NoModel == [origin |-> "none", owner |-> "none", fitted |-> FALSE]

\* cls(): every shipped constructor reads params.get(...) with params = None
ConstructorWithoutParamsRaises(t) == t \in ShippedTypes

\* ModelClass.load(path): the shipped classes build cls() first, a custom class
\* deserializes the file
LoadCanSucceed(t, a) ==
    /\ ~ConstructorWithoutParamsRaises(t)
    /\ Intact(a)
    /\ a.chunks[1].cls \in {"any", t}

\* ChronosModel.save is `pass`: nothing is written
SaveWrites(t) == t # "chronos"

-----------------------------------------------------------------------------
(* The label codec: read_metric's make_id and write_metric's parse_labels. *)
(* A Python str is a sequence of one-character strings.                    *)

\* 'series_0', the unique_id of rows that have no label column
SentinelId == <<"s", "e", "r", "i", "e", "s", "_", "0">>
\* 'series_id', the key of parse_labels' fallback dict
FallbackKey == <<"s", "e", "r", "i", "e", "s", "_", "i", "d">>

\* the characters of label values: a letter, the quote and the backslash
ValueChars == {"b", "\"", "\\"}
\* the label column names
LabelKeys == {<<"b">>, <<"\"">>, <<"a", "b">>}

RECURSIVE StringsUpTo(_)
StringsUpTo(n) ==
    IF n = 0 THEN {<<>>}
    ELSE LET shorter == StringsUpTo(n - 1)
         IN  shorter \cup {Append(w, c) : w \in {x \in shorter : Len(x) = n - 1}, c \in ValueChars}

LabelValues == StringsUpTo(MaxValLen)

\* a Python value: a str, a dict of values, the float nan or an int
PyStr(w) == [type |-> "str", val |-> w]
PyDict(f) == [type |-> "dict", val |-> f]
PyNaN == [type |-> "float", val |-> <<"n", "a", "n">>]
PyInt(w) == [type |-> "int", val |-> w]
EmptyDict == [k \in {} |-> PyStr(<<>>)]

\* the label sets of a row: string keys, string values
LabelSets ==
    UNION {[ks -> {PyStr(v) : v \in LabelValues}] :
             ks \in {x \in SUBSET LabelKeys : Cardinality(x) <= MaxLabels}}

\* code points, for Python's ordering of str
Ord(c) ==
    CASE c = " " -> 32 [] c = "\"" -> 34 [] c = "," -> 44 [] c = "/" -> 47
      [] c = "0" -> 48 [] c = ":" -> 58 [] c = "\\" -> 92 [] c = "_" -> 95
      [] c = "a" -> 97 [] c = "b" -> 98 [] c = "d" -> 100 [] c = "e" -> 101
      [] c = "i" -> 105 [] c = "r" -> 114 [] c = "s" -> 115 [] c = "u" -> 117
      [] c = "c" -> 99 [] c = "g" -> 103 [] c = "l" -> 108 [] c = "m" -> 109
      [] c = "n" -> 110 [] c = "o" -> 111 [] c = "t" -> 116 [] c = "v" -> 118
      [] c = "{" -> 123 [] c = "}" -> 125
      [] OTHER -> 0

RECURSIVE StrLess(_, _)
StrLess(x, y) ==
    IF y = <<>> THEN FALSE
    ELSE IF x = <<>> THEN TRUE
    ELSE IF Ord(Head(x)) # Ord(Head(y)) THEN Ord(Head(x)) < Ord(Head(y))
    ELSE StrLess(Tail(x), Tail(y))

\* sorted(keys): json.dumps(..., sort_keys=True)
RECURSIVE SortedKeys(_)
SortedKeys(ks) ==
    IF ks = {} THEN <<>>
    ELSE LET m == CHOOSE k \in ks : \A o \in ks \ {k} : StrLess(k, o)
         IN  <<m>> \o SortedKeys(ks \ {m})

\* json's string escaping, for the characters modelled
EscapeChar(c) ==
    IF c = "\"" THEN <<"\\", "\"">>
    ELSE IF c = "\\" THEN <<"\\", "\\">>
    ELSE <<c>>

RECURSIVE EscapeStr(_)
EscapeStr(w) == IF w = <<>> THEN <<>> ELSE EscapeChar(Head(w)) \o EscapeStr(Tail(w))

DumpsStr(w) == <<"\"">> \o EscapeStr(w) \o <<"\"">>

\* json.dumps of a value of a label column: a str, or NaN for the float nan
\* a row holds in a column its series does not have
DumpsValue(v) == IF v.type = "float" THEN <<"N", "a", "N">> ELSE DumpsStr(v.val)

\* json.dumps of a dict with str keys: {"k": "v", "k2": "v2"}
RECURSIVE DumpsMembers(_, _)
DumpsMembers(f, ks) ==
    IF ks = <<>> THEN <<>>
    ELSE DumpsStr(Head(ks)) \o <<":", " ">> \o DumpsValue(f[Head(ks)])
         \o (IF Tail(ks) = <<>> THEN <<>> ELSE <<",", " ">>)
         \o DumpsMembers(f, Tail(ks))

JsonDumps(f) == <<"{">> \o DumpsMembers(f, SortedKeys(DOMAIN f)) \o <<"}">>

\* make_id(row): labels = {k: row[k] for k in label_cols}; json.dumps(labels, sort_keys=True)
make_id(f) == JsonDumps(f)

\* the unique_id read_metric gives a row whose label columns hold f
UniqueIdOf(f) == IF DOMAIN f = {} THEN SentinelId ELSE make_id(f)

\* json.loads: what a backslash escape stands for ("" when it is no escape)
Unescape(c) ==
    CASE c = "\"" -> "\"" [] c = "\\" -> "\\" [] c = "/" -> "/"
      [] c = "b" -> "BS" [] c = "f" -> "FF" [] c = "n" -> "LF"
      [] c = "r" -> "CR" [] c = "t" -> "TAB"
      [] OTHER -> ""

ParseFail == [ok |-> FALSE, val |-> PyStr(<<>>), next |-> 0]

RECURSIVE SkipWs(_, _)
SkipWs(s, i) == IF i <= Len(s) /\ s[i] = " " THEN SkipWs(s, i + 1) ELSE i

At(s, i) == IF i >= 1 /\ i <= Len(s) THEN s[i] ELSE "EOF"

\* the characters of a JSON string after its opening quote
RECURSIVE ScanString(_, _, _)
ScanString(s, i, acc) ==
    IF At(s, i) = "EOF" THEN ParseFail
    ELSE IF s[i] = "\"" THEN [ok |-> TRUE, val |-> PyStr(acc), next |-> i + 1]
    ELSE IF s[i] = "\\" THEN
        IF At(s, i + 1) # "EOF" /\ Unescape(s[i + 1]) # ""
        THEN ScanString(s, i + 2, Append(acc, Unescape(s[i + 1])))
        ELSE ParseFail
    ELSE ScanString(s, i + 1, Append(acc, s[i]))

RECURSIVE ParseValue(_, _)
RECURSIVE ParseMembers(_, _, _)

\* the members of a JSON object from the key at i; a repeated key keeps the last
ParseMembers(s, i, acc) ==
    IF At(s, i) # "\"" THEN ParseFail
    ELSE LET k == ScanString(s, i + 1, <<>>) IN
      IF ~k.ok THEN ParseFail
      ELSE LET c == SkipWs(s, k.next) IN
        IF At(s, c) # ":" THEN ParseFail
        ELSE LET v == ParseValue(s, SkipWs(s, c + 1)) IN
          IF ~v.ok THEN ParseFail
          ELSE LET e == SkipWs(s, v.next)
                   acc2 == (k.val.val :> v.val) @@ acc
               IN  IF At(s, e) = "}" THEN [ok |-> TRUE, val |-> PyDict(acc2), next |-> e + 1]
                   ELSE IF At(s, e) = "," THEN ParseMembers(s, SkipWs(s, e + 1), acc2)
                   ELSE ParseFail

\* a JSON value at i: a string, an object, the number 0 or the constant NaN
\* (arrays, the other numbers and the other constants are in no identifier
\* modelled)
ParseValue(s, i) ==
    IF At(s, i) = "\"" THEN ScanString(s, i + 1, <<>>)
    ELSE IF At(s, i) = "0" THEN [ok |-> TRUE, val |-> PyInt(<<"0">>), next |-> i + 1]
    ELSE IF At(s, i) = "N" /\ At(s, i + 1) = "a" /\ At(s, i + 2) = "N"
    THEN [ok |-> TRUE, val |-> PyNaN, next |-> i + 3]
    ELSE IF At(s, i) = "{" THEN
        LET j == SkipWs(s, i + 1) IN
        IF At(s, j) = "}" THEN [ok |-> TRUE, val |-> PyDict(EmptyDict), next |-> j + 1]
        ELSE ParseMembers(s, j, EmptyDict)
    ELSE ParseFail

\* json.loads(uid): one value, then only whitespace
JsonLoads(s) ==
    LET v == ParseValue(s, SkipWs(s, 1)) IN
    IF v.ok /\ SkipWs(s, v.next) = Len(s) + 1 THEN v ELSE ParseFail

\* parse_labels(uid): try json.loads(uid), except: {"series_id": str(uid)}
parse_labels(u) ==
    LET v == JsonLoads(u) IN
    IF v.ok THEN v.val ELSE PyDict(FallbackKey :> PyStr(u))

-----------------------------------------------------------------------------
(* A forecast run.                                                         *)

\* what a call keeps of the deployment's call before it: whether that call fit
\* a model and its save returned without an error, with which class, key and
\* expiration, and when the save returned
NoPrev ==
    [saved |-> FALSE, model_type |-> "none", storage_path |-> NoPath,
     fit_expiration_hours |-> 0, saved_at |-> 0]

IdleRun ==
    [pc |-> "idle", impl |-> "load_and_predict", model_type |-> "arima",
     storage_path |-> NoPath, fit_expiration_hours |-> DefaultExpirationHours,
     model |-> NoModel, should_fit |-> TRUE, written |-> 0,
     probed |-> "no", calls |-> <<>>, caught |-> {}, err |-> "none",
     forecast |-> NoModel, overlapped |-> FALSE, ncalls |-> 0,
     saved_at |-> 0, prev |-> NoPrev]

\* the call that is over, as the next call of the deployment finds it
Finished(c) ==
    IF c.pc \in {"done", "raised"} /\ c.saved_at # 0
    THEN [saved |-> TRUE, model_type |-> c.model_type, storage_path |-> c.storage_path,
          fit_expiration_hours |-> c.fit_expiration_hours, saved_at |-> c.saved_at]
    ELSE NoPrev

\* the call is in progress: from the call of the task to its return or raise
ActiveUntilSave(r) == run[r].pc \notin {"idle", "done", "raised", "save_write"}
Active(r) == run[r].pc \notin {"idle", "done", "raised"}

Set(r, rec) == run' = [run EXCEPT ![r] = rec]

\* no forecast task is called
CacheOff ==
    /\ now = StartTime
    /\ store = [k \in Keys |-> NoArtifact]
    /\ run = [r \in Runs |-> IdleRun]

\* no row is encoded
CodecOff ==
    /\ labels = EmptyDict
    /\ uid = <<>>
    /\ decoded = PyDict(EmptyDict)
    /\ cstep = "off"

Init ==
    /\ now = StartTime
    /\ store \in [Keys -> {NoArtifact, OldArtifact}]
    /\ run = [r \in Runs |-> IdleRun]
    /\ CodecOff
    /\ PanelOff /\ WriteOff /\ DetectOff /\ ScoreOff /\ FlowOff

-----------------------------------------------------------------------------
(* The steps of load_and_predict / run_stateful_model.                     *)

\* the selector of load_and_predict: timesnet.py names Optional, Dict and Any
\* without importing them, so importing it raises NameError wherever
\* annotations are evaluated when the class body runs
SelectorFallsThrough(kind) ==
    IF kind[1] = "load_and_predict" /\ kind[2] = "timesnet" THEN {"NameError", "none"}
    ELSE {"none"}

SelectorOutcomes(kind) ==
    IF kind[1] = "load_and_predict" /\ kind[2] = UnknownType THEN {"ValueError"}
    ELSE IF kind[1] = "load_and_predict" /\ kind[2] = "timesnet" THEN {"NameError", "none"}
    ELSE {"none"}

\* the locals of a call as load_and_predict's first lines leave them
Called(r, kind, path, exp, out) ==
    [IdleRun EXCEPT
       !.impl = kind[1], !.model_type = kind[2],
       !.storage_path = path, !.fit_expiration_hours = exp,
       !.err = out,
       !.pc = IF out = "none" THEN "probe" ELSE "raised",
       !.overlapped = \E q \in Runs \ {r} : Active(q),
       !.ncalls = run[r].ncalls + 1,
       !.prev = Finished(run[r])]

\* a deployment's task is called, with any parameters, once the deployment's
\* previous call is over: parameters bound, model class selected
Start(r) ==
    /\ ~Active(r)
    /\ run[r].ncalls < MaxCalls
    /\ \E kind \in CallKinds, path \in Keys \cup {NoPath}, exp \in Expirations :
         \E out \in SelectorOutcomes(kind) :
           Set(r, Called(r, kind, path, exp, out))
    /\ UNCHANGED <<now, store, codecVars, dataVars>>

\* the tasks of two deployments are called, each once, in any order and overlap
RaceStart(r) ==
    /\ run[r].pc = "idle"
    /\ \E kind \in RaceKinds, path \in Keys :
           Set(r, Called(r, kind, path, DefaultExpirationHours, "none"))
    /\ UNCHANGED <<now, store, codecVars, dataVars>>

\* 1. Check Storage, with no key: `if storage_path:` is false
ProbeNoPath(r) ==
    /\ run[r].pc = "probe"
    /\ run[r].storage_path = NoPath
    /\ Set(r, [run[r] EXCEPT !.pc = "fit"])
    /\ UNCHANGED <<now, store, codecVars, dataVars>>

\* the branch taken on the artifact's metadata: load when it exists and is fresh
ProbeDecision(a, exp) == IF a.exists /\ IsFresh(a, exp) THEN "load" ELSE "fit"

\* 1. Check Storage: url_to_fs, exists, info, mtime, age; no exception
ProbeStore(r) ==
    /\ run[r].pc = "probe"
    /\ run[r].storage_path # NoPath
    /\ Set(r, [run[r] EXCEPT
                 !.probed = "ok",
                 !.pc = ProbeDecision(store[run[r].storage_path],
                                      run[r].fit_expiration_hours)])
    /\ UNCHANGED <<now, store, codecVars, dataVars>>

\* 1. Check Storage: url_to_fs, exists, info, info['mtime'] or the conversion of
\* the mtime raises; `except Exception` logs it and should_fit stays True
ProbeRaisePropagates(r) ==
    /\ run[r].pc = "probe"
    /\ run[r].storage_path # NoPath
    /\ Set(r, [run[r] EXCEPT !.probed = "raised", !.err = "probe", !.pc = "raised"])
    /\ UNCHANGED <<now, store, codecVars, dataVars>>

ProbeRaise(r) ==
    /\ run[r].pc = "probe"
    /\ run[r].storage_path # NoPath
    /\ Set(r, [run[r] EXCEPT !.probed = "raised", !.caught = @ \cup {"probe"},
                             !.pc = "fit"])
    /\ UNCHANGED <<now, store, codecVars, dataVars>>

\* 1. Check Storage when info has no 'mtime' entry: run_stateful_model's
\* info.get('mtime', 0) is the epoch, the hour 0 of the clock, and
\* load_and_predict's info['mtime'] raises KeyError, which `except Exception`
\* logs
ProbeNoMtime(r) ==
    /\ run[r].pc = "probe"
    /\ run[r].storage_path # NoPath
    /\ store[run[r].storage_path].exists
    /\ IF run[r].impl = "run_stateful_model"
       THEN Set(r, [run[r] EXCEPT
                      !.probed = "nomtime",
                      !.pc = IF now - 0 < run[r].fit_expiration_hours THEN "load" ELSE "fit"])
       ELSE Set(r, [run[r] EXCEPT
                      !.probed = "nomtime", !.caught = @ \cup {"probe"},
                      !.pc = "fit"])
    /\ UNCHANGED <<now, store, codecVars, dataVars>>

\* `if should_fit:` after the storage check
AfterCheck(should_fit) == IF should_fit THEN "fit" ELSE "predict"

\* model = ModelClass.load(storage_path); should_fit = False
LoadOkKeepsShouldFit(r) ==
    /\ run[r].pc = "load"
    /\ LET a == store[run[r].storage_path] IN
       /\ LoadCanSucceed(run[r].model_type, a)
       /\ Set(r, [run[r] EXCEPT
                    !.calls = Append(@, "load"),
                    !.model = [origin |-> "load", owner |-> a.chunks[1].w, fitted |-> TRUE],
                    !.pc = AfterCheck(run[r].should_fit)])
    /\ UNCHANGED <<now, store, codecVars, dataVars>>

LoadOkTouchesFile(r) ==
    /\ run[r].pc = "load"
    /\ LET a == store[run[r].storage_path] IN
       /\ LoadCanSucceed(run[r].model_type, a)
       /\ Set(r, [run[r] EXCEPT
                    !.calls = Append(@, "load"),
                    !.model = [origin |-> "load", owner |-> a.chunks[1].w, fitted |-> TRUE],
                    !.should_fit = FALSE,
                    !.pc = AfterCheck(FALSE)])
       /\ store' = [store EXCEPT ![run[r].storage_path].mtime = now]
    /\ UNCHANGED <<now, codecVars, dataVars>>

LoadOk(r) ==
    /\ run[r].pc = "load"
    /\ LET a == store[run[r].storage_path] IN
       /\ LoadCanSucceed(run[r].model_type, a)
       /\ Set(r, [run[r] EXCEPT
                    !.calls = Append(@, "load"),
                    !.model = [origin |-> "load", owner |-> a.chunks[1].w, fitted |-> TRUE],
                    !.should_fit = FALSE,
                    !.pc = AfterCheck(FALSE)])
    /\ UNCHANGED <<now, store, codecVars, dataVars>>

\* ModelClass.load raises on what it is given or on what it does (a torn file,
\* another class's file, cls() without params); the try block catches it and
\* should_fit stays True
LoadRaisePropagates(r) ==
    /\ run[r].pc = "load"
    /\ ~LoadCanSucceed(run[r].model_type, store[run[r].storage_path])
    /\ Set(r, [run[r] EXCEPT
                 !.calls = Append(@, "load"),
                 !.err = "load",
                 !.pc = "raised"])
    /\ UNCHANGED <<now, store, codecVars, dataVars>>

LoadRaise(r) ==
    /\ run[r].pc = "load"
    /\ ~LoadCanSucceed(run[r].model_type, store[run[r].storage_path])
    /\ Set(r, [run[r] EXCEPT
                 !.calls = Append(@, "load"),
                 !.caught = @ \cup {"load"},
                 !.pc = AfterCheck(run[r].should_fit)])
    /\ UNCHANGED <<now, store, codecVars, dataVars>>

\* ModelClass.load raises on a read error of the store; caught the same way
LoadIoRaise(r) ==
    /\ run[r].pc = "load"
    /\ LoadCanSucceed(run[r].model_type, store[run[r].storage_path])
    /\ Set(r, [run[r] EXCEPT
                 !.calls = Append(@, "load"),
                 !.caught = @ \cup {"load_io"},
                 !.pc = AfterCheck(run[r].should_fit)])
    /\ UNCHANGED <<now, store, codecVars, dataVars>>

\* 2. Fit: model = ModelClass(params=params); model.fit(context_df)
FitOkSavesWithoutKey(r) ==
    /\ run[r].pc = "fit"
    /\ run[r].should_fit
    /\ Set(r, [run[r] EXCEPT
                 !.calls = Append(@, "fit"),
                 !.model = [origin |-> "new", owner |-> r, fitted |-> TRUE],
                 !.pc = "save"])
    /\ UNCHANGED <<now, store, codecVars, dataVars>>

FitOk(r) ==
    /\ run[r].pc = "fit"
    /\ run[r].should_fit
    /\ Set(r, [run[r] EXCEPT
                 !.calls = Append(@, "fit"),
                 !.model = [origin |-> "new", owner |-> r, fitted |-> TRUE],
                 !.pc = IF run[r].storage_path # NoPath THEN "save" ELSE "predict"])
    /\ UNCHANGED <<now, store, codecVars, dataVars>>

\* the constructor or fit raises: nothing catches it
FitRaise(r) ==
    /\ run[r].pc = "fit"
    /\ run[r].should_fit
    /\ Set(r, [run[r] EXCEPT
                 !.calls = Append(@, "fit"),
                 !.model = [origin |-> "new", owner |-> r, fitted |-> FALSE],
                 !.err = "fit",
                 !.pc = "raised"])
    /\ UNCHANGED <<now, store, codecVars, dataVars>>

\* model.save(storage_path) of a class whose save writes nothing (ChronosModel)
SaveNothing(r) ==
    /\ run[r].pc = "save"
    /\ ~SaveWrites(run[r].model_type)
    /\ Set(r, [run[r] EXCEPT !.calls = Append(@, "save"), !.saved_at = now,
                             !.pc = "predict"])
    /\ UNCHANGED <<now, store, codecVars, dataVars>>

\* model.save(storage_path): open(path, 'wb') creates or truncates the file
SaveOpen(r) ==
    /\ run[r].pc = "save"
    /\ SaveWrites(run[r].model_type)
    /\ store' = [store EXCEPT ![run[r].storage_path] =
                    [exists |-> TRUE,
                     chunks |-> [i \in 1..NChunks |-> EmptyChunk],
                     mtime |-> now]]
    /\ Set(r, [run[r] EXCEPT !.calls = Append(@, "save"), !.written = 0,
                             !.pc = "save_write"])
    /\ UNCHANGED <<now, codecVars, dataVars>>

\* model.save raises before it writes; `except Exception` logs it
SaveOpenRaisePropagates(r) ==
    /\ run[r].pc = "save"
    /\ SaveWrites(run[r].model_type)
    /\ Set(r, [run[r] EXCEPT !.calls = Append(@, "save"),
                             !.err = "save", !.pc = "raised"])
    /\ UNCHANGED <<now, store, codecVars, dataVars>>

SaveOpenRaise(r) ==
    /\ run[r].pc = "save"
    /\ SaveWrites(run[r].model_type)
    /\ Set(r, [run[r] EXCEPT !.calls = Append(@, "save"),
                             !.caught = @ \cup {"save"}, !.pc = "predict"])
    /\ UNCHANGED <<now, store, codecVars, dataVars>>

\* pickle.dump(self, f): the next write of the save, at this writer's own offset
SaveWrite(r) ==
    /\ run[r].pc = "save_write"
    /\ LET k == run[r].storage_path
           i == run[r].written + 1
       IN  /\ store' = [store EXCEPT ![k] =
                          [exists |-> TRUE,
                           chunks |-> [@.chunks EXCEPT ![i] = Chunk(r, run[r].model_type)],
                           mtime |-> now]]
           /\ Set(r, [run[r] EXCEPT !.written = i,
                                    !.saved_at = IF i = NChunks THEN now ELSE @,
                                    !.pc = IF i = NChunks THEN "predict" ELSE "save_write"])
    /\ UNCHANGED <<now, codecVars, dataVars>>

\* model.save raises part way; `except Exception` logs it, the file stays as it is
SaveWriteRaise(r) ==
    /\ run[r].pc = "save_write"
    /\ Set(r, [run[r] EXCEPT !.caught = @ \cup {"save"}, !.pc = "predict"])
    /\ UNCHANGED <<now, store, codecVars, dataVars>>

\* 3. Predict: forecast = model.predict(context_df, ...); return forecast
PredictOk(r) ==
    /\ run[r].pc = "predict"
    /\ Set(r, [run[r] EXCEPT !.calls = Append(@, "predict"),
                             !.forecast = run[r].model, !.pc = "done"])
    /\ UNCHANGED <<now, store, codecVars, dataVars>>

\* model.predict raises: nothing catches it
PredictRaise(r) ==
    /\ run[r].pc = "predict"
    /\ Set(r, [run[r] EXCEPT !.calls = Append(@, "predict"),
                             !.err = "predict", !.pc = "raised"])
    /\ UNCHANGED <<now, store, codecVars, dataVars>>

\* an hour passes
Tick ==
    /\ now < EndTime
    /\ now' = now + 1
    /\ UNCHANGED <<store, run, codecVars, dataVars>>

\* one deployment: its task is called again and again
Next ==
    \/ Tick
    \/ Start("r1")
    \/ ProbeNoPath("r1")
    \/ ProbeStore("r1")
    \/ ProbeRaise("r1")
    \/ ProbeNoMtime("r1")
    \/ LoadOk("r1")
    \/ LoadRaise("r1")
    \/ LoadIoRaise("r1")
    \/ FitOk("r1")
    \/ FitRaise("r1")
    \/ SaveNothing("r1")
    \/ SaveOpen("r1")
    \/ SaveOpenRaise("r1")
    \/ SaveWrite("r1")
    \/ SaveWriteRaise("r1")
    \/ PredictOk("r1")
    \/ PredictRaise("r1")

Spec == Init /\ [][Next]_vars

\* two deployments that share the artifact store, run by a scheduler that does
\* not serialise them
RaceNext ==
    \/ Tick
    \/ \E r \in Runs : RaceStart(r)
    \/ \E r \in Runs : ProbeStore(r)
    \/ \E r \in Runs : ProbeRaise(r)
    \/ \E r \in Runs : ProbeNoMtime(r)
    \/ \E r \in Runs : LoadOk(r)
    \/ \E r \in Runs : LoadRaise(r)
    \/ \E r \in Runs : LoadIoRaise(r)
    \/ \E r \in Runs : FitOk(r)
    \/ \E r \in Runs : FitRaise(r)
    \/ \E r \in Runs : SaveOpen(r)
    \/ \E r \in Runs : SaveOpenRaise(r)
    \/ \E r \in Runs : SaveWrite(r)
    \/ \E r \in Runs : SaveWriteRaise(r)
    \/ \E r \in Runs : PredictOk(r)
    \/ \E r \in Runs : PredictRaise(r)

RaceSpec == Init /\ [][RaceNext]_vars

-----------------------------------------------------------------------------
(* The label codec applied to one row: read_metric encodes the row's       *)
(* labels, write_metric decodes the unique_id.                             *)

CodecInit ==
    /\ CacheOff
    /\ labels \in LabelSets
    /\ uid = <<>>
    /\ decoded = PyDict(EmptyDict)
    /\ cstep = "row"
    /\ PanelOff /\ WriteOff /\ DetectOff /\ ScoreOff /\ FlowOff

\* read_metric: df['unique_id'] = 'series_0', or df.apply(make_id, axis=1)
Encode ==
    /\ cstep = "row"
    /\ uid' = UniqueIdOf(labels)
    /\ cstep' = "encoded"
    /\ UNCHANGED <<labels, decoded, cacheVars, dataVars>>

\* write_metric: df['unique_id'].apply(parse_labels)
Decode ==
    /\ cstep = "encoded"
    /\ decoded' = parse_labels(uid)
    /\ cstep' = "decoded"
    /\ UNCHANGED <<labels, uid, cacheVars, dataVars>>

CodecNext == Encode \/ Decode

CodecSpec == CodecInit /\ [][CodecNext]_vars

-----------------------------------------------------------------------------
(* Properties of one call of the forecast task (Spec).                     *)

Count(seq, x) == Cardinality({i \in DOMAIN seq : seq[i] = x})

\* load was called and returned a model
LoadSucceeded(r) == Count(run[r].calls, "load") = 1 /\ run[r].model.origin = "load"
\* load was called and raised
LoadFailed(r) == Count(run[r].calls, "load") = 1 /\ run[r].model.origin # "load"
\* save was called on a class whose save writes, and did not finish
SaveFailed(r) ==
    /\ Count(run[r].calls, "save") = 1
    /\ SaveWrites(run[r].model_type)
    /\ run[r].pc # "save_write"
    /\ run[r].written < NChunks

\* C1: with a storage key and a probe that raises nothing, the call goes on to
\* ModelClass.load exactly when the artifact exists and its age is strictly less
\* than the expiration, and to fitting (should_fit still True) otherwise: age =
\* expiration refits, 23h of 24h loads, 25h of 24h refits, no artifact refits.
C1_LoadIffFresh ==
    [][\A r \in Runs :
         (/\ run[r].pc = "probe"
          /\ run'[r].pc # "probe"
          /\ run[r].storage_path # NoPath
          /\ run'[r].probed = "ok")
         => LET a == store[run[r].storage_path]
                exp == run[r].fit_expiration_hours
                age == now - a.mtime
            IN  /\ run'[r].pc \in {"load", "fit"}
                /\ run'[r].pc = "load" <=> (a.exists /\ age < exp)
                /\ run'[r].pc = "fit" => run'[r].should_fit
                /\ (a.exists /\ age = exp) => run'[r].pc = "fit"
                /\ (a.exists /\ exp = DefaultExpirationHours
                              /\ age = DefaultExpirationHours - 1) => run'[r].pc = "load"
                /\ (a.exists /\ exp = DefaultExpirationHours
                              /\ age = DefaultExpirationHours + 1) => run'[r].pc = "fit"
                /\ ~a.exists => run'[r].pc = "fit"]_vars

\* a call is about to load an artifact that is 23 hours old, expiration 24 hours
C1_Witness ==
    \E r \in Runs :
      /\ run[r].pc = "load"
      /\ run[r].probed = "ok"
      /\ run[r].fit_expiration_hours = DefaultExpirationHours
      /\ store[run[r].storage_path].exists
      /\ now - store[run[r].storage_path].mtime = DefaultExpirationHours - 1

\* C2: in every call that returns, predict was called exactly once, on a fitted
\* model that came either from a load that succeeded, with no fit in the call,
\* or from the fit of an instance the call constructed, with no load that
\* succeeded; the forecast returned is that model's.
C2_ExactlyOneOfLoadOrFit ==
    \A r \in Runs :
      run[r].pc = "done" =>
        /\ Count(run[r].calls, "predict") = 1
        /\ run[r].forecast = run[r].model
        /\ run[r].model # NoModel
        /\ run[r].model.fitted
        /\ \/ /\ LoadSucceeded(r)
              /\ run[r].caught \cap {"load", "load_io"} = {}
              /\ Count(run[r].calls, "fit") = 0
           \/ /\ run[r].model.origin = "new"
              /\ run[r].model.owner = r
              /\ Count(run[r].calls, "fit") = 1
              /\ (Count(run[r].calls, "load") = 0 \/ run[r].caught \cap {"load", "load_io"} # {})

\* a call has returned the forecast of a loaded model
C2_Witness ==
    \E r \in Runs : run[r].pc = "done" /\ run[r].model.origin = "load"

\* C3: a call with a shipped backend that loads an intact artifact written by
\* that backend's save, with no read error, gets the loaded instance and goes to
\* predict without fitting or saving.
C3_ShippedBackendLoadsFresh ==
    [][\A r \in Runs :
         (/\ run[r].pc = "load"
          /\ run'[r].pc # "load"
          /\ run[r].model_type \in ShippedTypes
          /\ Intact(store[run[r].storage_path])
          /\ store[run[r].storage_path].chunks[1].cls = run[r].model_type
          /\ "load_io" \notin run'[r].caught)
         => /\ run'[r].model.origin = "load"
            /\ ~run'[r].should_fit
            /\ run'[r].pc = "predict"]_vars

\* C4: when load raises, the call goes on as a refit: should_fit stays True, a
\* new instance is fit, save is called, predict is called on the fitted
\* instance, and the only errors the caller can see are those of fit and predict.
C4_LoadErrorDegradesToRefit ==
    \A r \in Runs :
      LoadFailed(r) =>
        /\ run[r].should_fit
        /\ run[r].pc \in {"fit", "save", "save_write", "predict", "done", "raised"}
        /\ run[r].pc \in {"save", "save_write", "predict", "done"}
             => run[r].model = [origin |-> "new", owner |-> r, fitted |-> TRUE]
        /\ run[r].pc = "done"
             => /\ run[r].calls = <<"load", "fit", "save", "predict">>
                /\ run[r].forecast = run[r].model
        /\ run[r].pc = "raised" => run[r].err \in {"fit", "predict"}

\* a call whose load raised has returned a forecast
C4_Witness ==
    \E r \in Runs : run[r].pc = "done" /\ "load" \in run[r].caught

\* C5: when probing the store raises, the error is not raised to the caller:
\* load is not called, a new instance is fit, saved and used to predict, and the
\* only errors the caller can see are those of fit and predict.
C5_ProbeErrorDegradesToRefit ==
    \A r \in Runs :
      run[r].probed = "raised" =>
        /\ run[r].should_fit
        /\ Count(run[r].calls, "load") = 0
        /\ run[r].pc \in {"fit", "save", "save_write", "predict", "done", "raised"}
        /\ run[r].pc = "done"
             => /\ run[r].calls = <<"fit", "save", "predict">>
                /\ run[r].model = [origin |-> "new", owner |-> r, fitted |-> TRUE]
                /\ run[r].forecast = run[r].model
        /\ run[r].pc = "raised" => run[r].err \in {"fit", "predict"}

\* a call whose probe raised has returned a forecast
C5_Witness ==
    \E r \in Runs : run[r].pc = "done" /\ run[r].probed = "raised"

\* C6: when save raises, before or part way through its writes, the error is
\* not raised to the caller: predict is called on the instance the call has just
\* fit and the call returns its forecast.
C6_SaveErrorNotFatal ==
    \A r \in Runs :
      SaveFailed(r) =>
        /\ run[r].pc \in {"predict", "done", "raised"}
        /\ run[r].model = [origin |-> "new", owner |-> r, fitted |-> TRUE]
        /\ run[r].pc = "done"
             => /\ run[r].forecast = run[r].model
                /\ run[r].calls[Len(run[r].calls)] = "predict"
                /\ Count(run[r].calls, "predict") = 1
        /\ run[r].pc = "raised" => run[r].err = "predict"

\* a call whose save raised has returned a forecast
C6_Witness ==
    \E r \in Runs : run[r].pc = "done" /\ "save" \in run[r].caught

-----------------------------------------------------------------------------
(* Properties of two calls that share the store (RaceSpec).                *)

\* between deciding to refit and the end of save, with a storage key
InRefitSave(r) ==
    /\ run[r].pc \in {"fit", "save", "save_write"}
    /\ run[r].should_fit
    /\ run[r].storage_path # NoPath

BothInRefitSave(r, q) ==
    /\ r # q
    /\ run[r].storage_path = run[q].storage_path
    /\ InRefitSave(r)
    /\ InRefitSave(q)

SavedFully(r) ==
    /\ Count(run[r].calls, "save") = 1
    /\ run[r].written = NChunks
    /\ run[r].pc \in {"predict", "done", "raised"}

\* C8: once two runs that both refit and saved at the same key have returned,
\* the artifact is wholly the output of the save that made the last write, and
\* each run has predicted with the model it fit itself.
C8_LastWriterWins ==
    \A r, q \in Runs :
      (/\ r # q
       /\ run[r].storage_path = run[q].storage_path
       /\ run[r].pc = "done" /\ SavedFully(r)
       /\ run[q].pc = "done" /\ SavedFully(q))
      => LET a == store[run[r].storage_path] IN
           /\ a.exists
           /\ a.chunks[NChunks].w \in {r, q}
           /\ \A i \in 1..NChunks : a.chunks[i] = a.chunks[NChunks]
           /\ run[r].forecast = [origin |-> "new", owner |-> r, fitted |-> TRUE]
           /\ run[q].forecast = [origin |-> "new", owner |-> q, fitted |-> TRUE]

\* C9: every change of the store is a write of the save of a call that is
\* refitting, at that call's key; a step of a call that is loading or predicting,
\* and any step of a call that holds a loaded model, leaves every artifact's
\* content and last-modified time as they were.
C9_OnlySaveOfRefitWrites ==
    [][/\ store' # store =>
            \E r \in Runs :
              /\ run'[r] # run[r]
              /\ run[r].pc \in {"save", "save_write"}
              /\ run[r].should_fit
              /\ run[r].model = [origin |-> "new", owner |-> r, fitted |-> TRUE]
              /\ \A k \in Keys \ {run[r].storage_path} : store'[k] = store[k]
       /\ \A r \in Runs :
            (/\ run'[r] # run[r]
             /\ \/ run[r].pc \in {"load", "predict"}
                \/ run[r].model.origin = "load")
            => store' = store]_vars

\* a call has loaded the artifact and predicted, hours after the clock started,
\* and the artifact is the one the behaviour began with
C9_Witness ==
    \E r \in Runs :
      /\ run[r].pc = "done"
      /\ run[r].model.origin = "load"
      /\ now > StartTime
      /\ store[run[r].storage_path] = OldArtifact

-----------------------------------------------------------------------------
(* Properties of the label codec (CodecSpec).                              *)

\* C10: decoding the unique_id of a row gives back the row's label set, for
\* every label set with string keys and values, the empty one included.
C10_RoundTrip ==
    cstep = "decoded" => decoded = PyDict(labels)

\* the round trip of the label sets that have at least one label
RoundTripNonEmpty ==
    (cstep = "decoded" /\ DOMAIN labels # {}) => decoded = PyDict(labels)

-----------------------------------------------------------------------------
(* The panel read_metric builds from a TSDB read, the series the forecast  *)
(* run writes back through write_metric, and the panel the detection run   *)
(* builds when it reads them.  A row's timestamp and value are left out:   *)
(* no unique_id depends on them.                                           *)

\* the most series one read returns
MaxSeries == 2

\* the columns read_metric leaves out of the labels
NameColumn == <<"_", "_", "n", "a", "m", "e", "_", "_">>
TimestampColumn == <<"t", "i", "m", "e", "s", "t", "a", "m", "p">>
ValueColumn == <<"v", "a", "l", "u", "e">>
ReservedExceptName == {TimestampColumn, ValueColumn}
ReservedColumns == {TimestampColumn, ValueColumn, NameColumn}

\* the label names and label values of the series read, and their metric name
PanelKeys == {<<"b">>, <<"a", "b">>}
PanelValues == {<<"b">>, <<"\"">>}
MetricNames == {<<"m">>}
\* the metric name forecast_flow writes the predictions under
PredName == <<"a", "n", "o", "m", "a", "l", "y", "_", "p", "r", "e", "d">>

SeqToSet(q) == {q[i] : i \in DOMAIN q}

\* the orders a dict with the keys ks can have been filled in
KeyOrders(ks) ==
    {o \in [1..Cardinality(ks) -> ks] : \A i, j \in DOMAIN o : o[i] = o[j] => i = j}

\* the metric dict of one series of a response: <<column, value>> pairs in
\* the order of the response, the metric name first when the series has one
RawSeries ==
    LET names == {<<>>} \cup {<< <<NameColumn, n>> >> : n \in MetricNames}
        label_lists ==
            UNION {{[i \in DOMAIN o |-> <<o[i], v[o[i]]>>] :
                      o \in KeyOrders(ks), v \in [ks -> PanelValues]} :
                   ks \in {x \in SUBSET PanelKeys : Cardinality(x) <= MaxLabels}}
    IN  {n \o l : n \in names, l \in label_lists}

\* the label set of a series, metric name included
PairsOf(s) == SeqToSet(s)

\* a response holds every series once
Fetches ==
    UNION {{f \in [1..n -> RawSeries] :
              \A i, j \in 1..n : PairsOf(f[i]) = PairsOf(f[j]) => i = j} :
           n \in 0..MaxSeries}

\* MetricRangeDataFrame(metric_data): the columns of the frame are the keys of
\* the metric dicts, in the order they first appear
RECURSIVE AddColumns(_, _)
AddColumns(cols, s) ==
    IF s = <<>> THEN cols
    ELSE AddColumns(IF Head(s)[1] \in SeqToSet(cols) THEN cols
                    ELSE Append(cols, Head(s)[1]), Tail(s))

RECURSIVE ColumnsFrom(_, _)
ColumnsFrom(cols, f) ==
    IF f = <<>> THEN cols ELSE ColumnsFrom(AddColumns(cols, Head(f)), Tail(f))

ColumnsOf(f) == ColumnsFrom(<<>>, f)

\* label_cols = [c for c in df.columns if c not in ['timestamp', 'value', '__name__']]
label_cols(f) ==
    LET IsLabel(c) == c \notin ReservedColumns
    IN  SelectSeq(ColumnsOf(f), IsLabel)

\* row[k]: the value of the series in column k, nan when the series has no such key
CellOf(s, k) ==
    IF \E i \in DOMAIN s : s[i][1] = k
    THEN PyStr(s[CHOOSE i \in DOMAIN s : s[i][1] = k][2])
    ELSE PyNaN

\* labels = {k: row[k] for k in label_cols}
RowLabels(s, cols) == [k \in SeqToSet(cols) |-> CellOf(s, k)]

\* the order json.dumps writes the keys of a dict filled in the order `order`
KeepInsertionOrder(order) == order
SortKeys(order) == SortedKeys(SeqToSet(order))

\* json.dumps(labels, sort_keys=True) of a dict filled in the order `order`
DumpsDict(f, order) == <<"{">> \o DumpsMembers(f, SortKeys(order)) \o <<"}">>

\* the unique_id column read_metric computes, one entry per series
read_metric(f) ==
    LET cols == label_cols(f)
    IN  [i \in DOMAIN f |->
            IF cols = <<>> THEN SentinelId
            ELSE DumpsDict(RowLabels(f[i], cols), cols)]

\* the labels of the series write_metric sends for a row: the entries of
\* parse_labels(unique_id) that are str; to_csv writes a nan as an empty
\* field, and a label with an empty value is no label
RECURSIVE LabelPairs(_, _)
LabelPairs(d, ks) ==
    IF ks = <<>> THEN <<>>
    ELSE (IF d[Head(ks)].type = "str" /\ d[Head(ks)].val # <<>>
          THEN << <<Head(ks), d[Head(ks)].val>> >> ELSE <<>>)
         \o LabelPairs(d, Tail(ks))

WrittenLabels(u) ==
    LET d == parse_labels(u)
    IN  IF d.type = "dict" THEN LabelPairs(d.val, SortedKeys(DOMAIN d.val)) ELSE <<>>

\* write_metric(frame, metric_name): one series per row, under metric_name
write_metric(ids, name) ==
    [i \in DOMAIN ids |-> << <<NameColumn, name>> >> \o WrittenLabels(ids[i])]

\* the TSDB holds a series once: the rows of equal labels are one series
RECURSIVE Distinct(_, _)
Distinct(seen, q) ==
    IF q = <<>> THEN seen
    ELSE Distinct(IF Head(q) \in SeqToSet(seen) THEN seen ELSE Append(seen, Head(q)), Tail(q))

PanelInit ==
    /\ CacheOff
    /\ CodecOff
    /\ fetch \in Fetches
    /\ panel = <<>>
    /\ written = <<>>
    /\ readback = <<>>
    /\ pstep = "fetched"
    /\ target = <<>>
    /\ SampleOff
    /\ WriteOff /\ DetectOff /\ ScoreOff /\ FlowOff

\* forecast_flow: df = read_metric(query=promql, ...)
ReadContext ==
    /\ pstep = "fetched"
    /\ panel' = read_metric(fetch)
    /\ pstep' = "panel"
    /\ UNCHANGED <<fetch, written, readback, target, sampleVars,
                   cacheVars, codecVars, writeVars, detectVars, scoreVars, flowVars>>

\* forecast_flow: if df.empty: return
SkipEmptyContext ==
    /\ pstep = "panel"
    /\ panel = <<>>
    /\ pstep' = "skipped"
    /\ UNCHANGED <<fetch, panel, written, readback, target, sampleVars,
                   cacheVars, codecVars, writeVars, detectVars, scoreVars, flowVars>>

\* forecast_flow: the forecast rows keep the unique_id of their series;
\* write_metric(forecast_df[['timestamp', 'unique_id', 'pred']], "anomaly_pred")
WriteForecast ==
    /\ pstep = "panel"
    /\ panel # <<>>
    /\ written' = write_metric(panel, PredName)
    /\ pstep' = "written"
    /\ UNCHANGED <<fetch, panel, readback, target, sampleVars,
                   cacheVars, codecVars, writeVars, detectVars, scoreVars, flowVars>>

\* detect_anomalies_flow: pred_df = read_metric(query="anomaly_pred", ...)
ReadForecast ==
    /\ pstep = "written"
    /\ readback' = read_metric(Distinct(<<>>, written))
    /\ pstep' = "readback"
    /\ UNCHANGED <<fetch, panel, written, target, sampleVars,
                   cacheVars, codecVars, writeVars, detectVars, scoreVars, flowVars>>

PanelNext == ReadContext \/ SkipEmptyContext \/ WriteForecast \/ ReadForecast

PanelSpec == PanelInit /\ [][PanelNext]_vars

-----------------------------------------------------------------------------
(* Properties of the panels (PanelSpec).                                   *)

PanelBuilt == pstep \in {"panel", "skipped", "written", "readback"}

\* the dicts make_id can be given: a str or nan under each label column
PanelDicts ==
    UNION {[ks -> {PyStr(v) : v \in PanelValues} \cup {PyNaN}] : ks \in SUBSET PanelKeys}

\* the unique_id of a row whose labels are e, filled in the order o
IdOfDict(e, o) == IF DOMAIN e = {} THEN SentinelId ELSE DumpsDict(e, o)

\* C11: two label sets get the same series identifier exactly when they hold
\* the same key/value pairs: the identifier of a row of the panel is the
\* identifier of a label set, in whatever order that label set is filled,
\* exactly when the label set equals the row's; two rows of the panel share
\* an identifier exactly when their label sets are equal.
C11_SameIdIffSameLabels ==
    PanelBuilt =>
        LET cols == label_cols(fetch) IN
        \A i \in DOMAIN fetch :
            /\ \A j \in DOMAIN fetch :
                   panel[i] = panel[j]
                     <=> RowLabels(fetch[i], cols) = RowLabels(fetch[j], cols)
            /\ \A e \in PanelDicts : \A o \in KeyOrders(DOMAIN e) :
                   IdOfDict(e, o) = panel[i] <=> e = RowLabels(fetch[i], cols)

\* two series of different labels in one panel whose label columns are not
\* in sorted order
C11_Witness ==
    /\ pstep = "panel"
    /\ Len(fetch) = 2
    /\ label_cols(fetch) = << <<"b">>, <<"a", "b">> >>
    /\ panel[1] # panel[2]

\* C12: the identifier of a series is a function of its own label set only:
\* it is the identifier the series gets when it is the only one returned.
C12_IdOfOwnLabelsOnly ==
    PanelBuilt => \A i \in DOMAIN fetch : panel[i] = read_metric(<<fetch[i]>>)[1]

\* C13: the identifier the detection run computes for the anomaly_pred series
\* written for an input series is the identifier of that input series, for
\* every label set, the empty one included.
C13_ReadBackSameId ==
    pstep = "readback" =>
        \A i \in DOMAIN panel : \E j \in DOMAIN readback : readback[j] = panel[i]

\* the same, for the panels that have a label column
ReadBackSameIdWithLabels ==
    (pstep = "readback" /\ label_cols(fetch) # <<>>) =>
        \A i \in DOMAIN panel : \E j \in DOMAIN readback : readback[j] = panel[i]

\* a series without its metric name
WithoutName(s) ==
    LET NotName(p) == p[1] # NameColumn IN SelectSeq(s, NotName)

\* C15: when the rows have no column but the reserved ones every row gets
\* the sentinel identifier, and the metric name contributes to no identifier:
\* the panel is the one the same series give without their metric names.
C15_SentinelAndNameIgnored ==
    PanelBuilt =>
        /\ (\A i \in DOMAIN fetch : \A p \in SeqToSet(fetch[i]) : p[1] \in ReservedColumns)
              => \A i \in DOMAIN fetch : panel[i] = SentinelId
        /\ panel = read_metric([i \in DOMAIN fetch |-> WithoutName(fetch[i])])

\* two series without labels, one of them with a metric name, and a panel
\* built from them
C15_Witness ==
    /\ pstep = "panel"
    /\ Len(fetch) = 2
    /\ \A i \in DOMAIN fetch : \A p \in SeqToSet(fetch[i]) : p[1] \in ReservedColumns
    /\ \E i \in DOMAIN fetch : fetch[i] # <<>>
    /\ panel = <<SentinelId, SentinelId>>

-----------------------------------------------------------------------------
(* write_metric's handling of the unique_id column of the frame it is      *)
(* given: parse_labels row by row, then the labels frame.                  *)

\* the most rows of a frame given to write_metric
MaxRows == 2

\* unique_ids: those read_metric computes, and strings that are no JSON
\* object: the number 0, the JSON string "b", NaN, b, 00, {, the empty string
Identifiers ==
    UNION {{IdOfDict(e, o) : o \in KeyOrders(DOMAIN e)} : e \in PanelDicts}
    \cup {<<"0">>, <<"\"", "b", "\"">>, <<"N", "a", "N">>, <<"b">>, <<"0", "0">>,
          <<"{">>, <<"{", "}">>, <<>>}

\* the extra_labels a write is called with: None, and one label whose key
\* is also a key of the identifiers
ExtraLabelSets == {EmptyDict, <<"b">> :> PyStr(<<"e">>)}

AllDicts == \A i \in DOMAIN label_dicts : label_dicts[i].type = "dict"

\* the columns of pd.DataFrame(dicts): the keys of the dicts, or the one
\* column 0 of a list of values that starts with no dict
FrameColumns(dicts) ==
    IF \A i \in DOMAIN dicts : dicts[i].type = "dict"
    THEN UNION {DOMAIN dicts[i].val : i \in DOMAIN dicts}
    ELSE {<<"0">>}

\* the cell of row i of pd.DataFrame(dicts) in column k: the value of the
\* row's own dict, nan when the dict has no such key
FrameCell(dicts, i, k) ==
    IF dicts[i].type # "dict" THEN dicts[i]
    ELSE IF k \in DOMAIN dicts[i].val THEN dicts[i].val[k] ELSE PyNaN

\* the label columns of export_df: those of labels_df, then export_df[k] = v
\* for every extra label, then export_df['__name__'] = metric_name
ExportLabels(dicts, extra, name) ==
    [i \in DOMAIN dicts |->
        [k \in FrameColumns(dicts) \cup DOMAIN extra \cup {NameColumn} |->
            IF k = NameColumn THEN PyStr(name)
            ELSE IF k \in DOMAIN extra THEN extra[k]
            ELSE FrameCell(dicts, i, k)]]

\* the metric names of the bounds and of the score
LowerName == <<"a", "n", "o", "m", "a", "l", "y", "_", "l", "o", "w", "e", "r">>
UpperName == <<"a", "n", "o", "m", "a", "l", "y", "_", "u", "p", "p", "e", "r">>
ScoreName == <<"a", "n", "o", "m", "a", "l", "y", "_", "s", "c", "o", "r", "e">>

\* a call of write_metric: the columns of the frame and the metric name
WriteCall(columns, name) == [columns |-> columns, name |-> name]

\* the four writes of the flows: forecast_df[['timestamp', 'unique_id', 'pred']]
\* as anomaly_pred, likewise lower and upper, and
\* merged[['timestamp', 'unique_id', 'anomaly_score']] as anomaly_score
FlowWriteCalls ==
    {WriteCall(<<"timestamp", "unique_id", "pred">>, PredName),
     WriteCall(<<"timestamp", "unique_id", "lower">>, LowerName),
     WriteCall(<<"timestamp", "unique_id", "upper">>, UpperName),
     WriteCall(<<"timestamp", "unique_id", "anomaly_score">>, ScoreName)}

\* other frames: the whole forecast, bounds beside a value column, and a
\* frame with no column to take values from
OtherWriteCalls ==
    {WriteCall(<<"timestamp", "unique_id", "pred", "lower", "upper">>, LowerName),
     WriteCall(<<"timestamp", "unique_id", "upper", "value">>, UpperName),
     WriteCall(<<"timestamp", "unique_id">>, PredName)}

\* the cell of the frame given in a column and a row
Cell(col, row) == [col |-> col, row |-> row]

NoColumn == "None"

\* for col in df.columns: if col not in ['timestamp', 'unique_id']:
\* value_col = col; break
RECURSIVE FirstOtherColumn(_)
FirstOtherColumn(columns) ==
    IF columns = <<>> THEN NoColumn
    ELSE IF Head(columns) \notin {"timestamp", "unique_id"} THEN Head(columns)
    ELSE FirstOtherColumn(Tail(columns))

\* Determine value column: 'y', 'value', 'pred', 'anomaly_score', or the
\* first column that is neither timestamp nor unique_id
ValueColOfNamed(columns) ==
    LET cols == SeqToSet(columns)
    IN  IF "y" \in cols THEN "y"
        ELSE IF "value" \in cols THEN "value"
        ELSE IF "pred" \in cols THEN "pred"
        ELSE IF "anomaly_score" \in cols THEN "anomaly_score"
        ELSE NoColumn

ValueCol(columns) ==
    LET cols == SeqToSet(columns)
    IN  IF "y" \in cols THEN "y"
        ELSE IF "value" \in cols THEN "value"
        ELSE IF "pred" \in cols THEN "pred"
        ELSE IF "anomaly_score" \in cols THEN "anomaly_score"
        ELSE FirstOtherColumn(columns)

WriteInit ==
    /\ CacheOff
    /\ CodecOff
    /\ PanelOff
    /\ batch \in UNION {[1..n -> Identifiers] : n \in 1..MaxRows}
    /\ label_dicts = <<>>
    /\ wstep = "given"
    /\ extra_labels \in ExtraLabelSets
    /\ csv_rows = <<>>
    /\ \E call \in FlowWriteCalls \cup OtherWriteCalls :
          /\ df_columns = call.columns
          /\ metric_name = call.name
    /\ csv_values = <<>>
    /\ DetectOff /\ ScoreOff /\ FlowOff

\* export_df['timestamp'] = df['timestamp']; export_df['value'] = df[value_col]
ChooseValueColumn ==
    /\ wstep = "given"
    /\ ValueCol(df_columns) # NoColumn
    /\ csv_values' = [i \in DOMAIN batch |-> Cell(ValueCol(df_columns), i)]
    /\ wstep' = "frame"
    /\ UNCHANGED <<batch, label_dicts, extra_labels, csv_rows, df_columns, metric_name,
                   cacheVars, codecVars, panelVars, detectVars, scoreVars, flowVars>>

\* if not value_col: ... raise ValueError("Could not determine value column")
ChooseValueColumnRaise ==
    /\ wstep = "given"
    /\ ValueCol(df_columns) = NoColumn
    /\ wstep' = "no_value"
    /\ UNCHANGED <<batch, label_dicts, extra_labels, csv_rows, df_columns, metric_name,
                   csv_values,
                   cacheVars, codecVars, panelVars, detectVars, scoreVars, flowVars>>

\* label_dicts = df['unique_id'].apply(parse_labels).tolist()
ParseLabels ==
    /\ wstep = "frame"
    /\ label_dicts' = [i \in DOMAIN batch |-> parse_labels(batch[i])]
    /\ wstep' = "parsed"
    /\ UNCHANGED <<batch, extra_labels, csv_rows, df_columns, metric_name, csv_values,
                   cacheVars, codecVars, panelVars, detectVars, scoreVars, flowVars>>


\* labels_df = pd.DataFrame(label_dicts); pd.concat; extra_labels; __name__;
\* to_csv; requests.post
BuildLabelsFrame ==
    /\ wstep = "parsed"
    /\ AllDicts \/ label_dicts[1].type # "dict"
    /\ csv_rows' = ExportLabels(label_dicts, extra_labels, metric_name)
    /\ wstep' = "written"
    /\ UNCHANGED <<batch, label_dicts, extra_labels, df_columns, metric_name, csv_values,
                   cacheVars, codecVars, panelVars, detectVars, scoreVars, flowVars>>

\* pd.DataFrame(label_dicts) of a list whose first entry is a dict and that
\* holds a value that is no dict raises (the value has no keys): nothing
\* of the frame is written
BuildLabelsFrameRaise ==
    /\ wstep = "parsed"
    /\ label_dicts[1].type = "dict"
    /\ ~AllDicts
    /\ wstep' = "raised"
    /\ UNCHANGED <<batch, label_dicts, extra_labels, csv_rows, df_columns, metric_name,
                   csv_values,
                   cacheVars, codecVars, panelVars, detectVars, scoreVars, flowVars>>

WriteNext ==
    \/ ChooseValueColumn
    \/ ChooseValueColumnRaise
    \/ ParseLabels
    \/ BuildLabelsFrame
    \/ BuildLabelsFrameRaise

WriteSpec == WriteInit /\ [][WriteNext]_vars

-----------------------------------------------------------------------------
(* Properties of write_metric's label parsing (WriteSpec).                 *)

\* C14: decoding never raises, and every identifier that is not the
\* canonical form (a JSON object) decodes to the one-entry label set
\* {"series_id": <id>}; a row that cannot be decoded never aborts the write.
C14_DecodeFallsBack ==
    /\ wstep # "raised"
    /\ wstep \in {"parsed", "written"} =>
          \A i \in DOMAIN batch :
              LET v == JsonLoads(batch[i]) IN
              label_dicts[i] = IF v.ok /\ v.val.type = "dict" THEN v.val
                               ELSE PyDict(FallbackKey :> PyStr(batch[i]))

\* the same for the identifiers json.loads rejects or parses as an object
DecodeFallsBackWhenLoadsRaises ==
    wstep \in {"parsed", "written"} =>
        \A i \in DOMAIN batch :
            LET v == JsonLoads(batch[i]) IN
            (~v.ok \/ v.val.type = "dict") =>
                label_dicts[i] = IF v.ok THEN v.val
                                 ELSE PyDict(FallbackKey :> PyStr(batch[i]))

\* a cell to_csv writes as the empty field (a label the TSDB does not keep)
Missing(c) == c = PyNaN \/ (c.type = "str" /\ c.val = <<>>)

\* the labels of a row of the posted CSV, and the labels of a decoded identifier
EmittedLabels(row) == {<<k, row[k]>> : k \in {x \in DOMAIN row : ~Missing(row[x])}}
DecodedLabels(d) ==
    IF d.type = "dict"
    THEN {<<k, d.val[k]>> : k \in {x \in DOMAIN d.val : ~Missing(d.val[x])}}
    ELSE {}

\* the decoded labels with the extra labels over them, and the metric name
WithExtraAndName(decodedLabels) ==
    {q \in decodedLabels : q[1] \notin DOMAIN extra_labels \cup {NameColumn}}
    \cup {<<k, extra_labels[k]>> : k \in DOMAIN extra_labels}
    \cup {<<NameColumn, PyStr(metric_name)>>}

\* C29: every row of a written panel is emitted with exactly the labels
\* decoded from its own identifier, the extra labels over them (an extra
\* label wins a key both have), and the metric name; no label of a row comes
\* from another row's identifier.
C29_RowLabelsFromOwnIdentifier ==
    wstep = "written" =>
        \A i \in DOMAIN batch :
            EmittedLabels(csv_rows[i]) = WithExtraAndName(DecodedLabels(parse_labels(batch[i])))

\* the same, for the panels whose identifiers all decode to a dict
RowLabelsFromOwnIdentifierOfDicts ==
    (wstep = "written" /\ AllDicts) =>
        \A i \in DOMAIN batch :
            EmittedLabels(csv_rows[i]) = WithExtraAndName(DecodedLabels(parse_labels(batch[i])))

\* the frame given is one the flows write: [timestamp, unique_id, X]
FlowWrite == WriteCall(df_columns, metric_name) \in FlowWriteCalls

\* the values emitted are those of the column X, row by row
EmitsThirdColumn == csv_values = [i \in DOMAIN batch |-> Cell(df_columns[3], i)]

\* C36: given a frame [timestamp, unique_id, X] of the flows, X one of pred,
\* lower, upper and anomaly_score, write_metric finds a value column, emits
\* the column X as the sample value and the given metric name as __name__:
\* anomaly_lower carries the lower bound and anomaly_upper the upper bound.
C36_ValueColumnUnderName ==
    FlowWrite =>
        /\ wstep # "no_value"
        /\ wstep \in {"frame", "parsed", "written"} => EmitsThirdColumn
        /\ wstep = "written" =>
              /\ \A i \in DOMAIN csv_rows : csv_rows[i][NameColumn] = PyStr(metric_name)
              /\ metric_name = LowerName => \A i \in DOMAIN batch : csv_values[i].col = "lower"
              /\ metric_name = UpperName => \A i \in DOMAIN batch : csv_values[i].col = "upper"

\* the lower bounds of two rows written as anomaly_lower
C36_Witness ==
    /\ wstep = "written"
    /\ df_columns = <<"timestamp", "unique_id", "lower">>
    /\ metric_name = LowerName
    /\ Len(batch) = 2
    /\ csv_values = <<Cell("lower", 1), Cell("lower", 2)>>
    /\ \A i \in DOMAIN csv_rows : csv_rows[i][NameColumn] = PyStr(LowerName)

-----------------------------------------------------------------------------
(* Scoring: calculate_anomaly_score's score_row.  A float is held exactly  *)
(* as (i + e * 1e-9) / d with small integers i, e and d (rounding is not   *)
(* modelled); nan is the missing value of pandas.                          *)

NaN == [nan |-> TRUE]
Num(i, e) == [i |-> i, e |-> e, d |-> 1]
IsNaN(x) == x = NaN

\* x - y, for x and y of the same d
Sub(x, y) ==
    IF IsNaN(x) \/ IsNaN(y) THEN NaN ELSE [i |-> x.i - y.i, e |-> x.e - y.e, d |-> x.d]

\* x < 0: the sign is that of i, and that of e when i is 0
IsNegative(x) == x.i < 0 \/ (x.i = 0 /\ x.e < 0)

\* abs(x)
Abs(x) ==
    IF IsNaN(x) THEN NaN
    ELSE IF IsNegative(x) THEN [i |-> 0 - x.i, e |-> 0 - x.e, d |-> x.d] ELSE x

\* x < y and x <= y; a comparison with nan is False
LessThan(x, y) ==
    IF IsNaN(x) \/ IsNaN(y) THEN FALSE ELSE IsNegative(Sub(x, y))
LessEq(x, y) ==
    IF IsNaN(x) \/ IsNaN(y) THEN FALSE ELSE ~IsNegative(Sub(y, x))

\* x / 2.0
Half(x) == IF IsNaN(x) THEN NaN ELSE [i |-> x.i, e |-> x.e, d |-> 2 * x.d]

\* x / y, kept as the pair of its terms
Div(x, y) == IF IsNaN(x) \/ IsNaN(y) THEN NaN ELSE [num |-> x, den |-> y]

\* 1e-9
Epsilon == Num(0, 1)

\* score_row(row)
score_row(r) ==
    LET actual == r.value
        pred == r.pred
        lower == r.lower
        upper == r.upper
        width == Sub(upper, lower)
    IN  IF LessEq(width, Epsilon) THEN Abs(Sub(actual, pred))
        ELSE LET half_width == Half(width)
                 deviation == Abs(Sub(actual, pred))
             IN  Div(deviation, half_width)

\* the values of the rows scored: 5, 7, 8, 10, 12, 14, 8 + 1e-9, 8 + 2e-9
ScoreValues ==
    {Num(5, 0), Num(7, 0), Num(8, 0), Num(10, 0), Num(12, 0), Num(14, 0),
     Num(8, 1), Num(8, 2)}

ScoreInit ==
    /\ CacheOff
    /\ CodecOff
    /\ PanelOff /\ WriteOff /\ DetectOff /\ FlowOff
    /\ srow \in [value : ScoreValues, pred : ScoreValues \cup {NaN},
                 lower : ScoreValues \cup {NaN}, upper : ScoreValues \cup {NaN}]
    /\ score = <<>>
    /\ sstep = "row"

\* merged.apply(score_row, axis=1), for one row
ScoreRow ==
    /\ sstep = "row"
    /\ score' = score_row(srow)
    /\ sstep' = "scored"
    /\ UNCHANGED <<srow, cacheVars, codecVars, panelVars, writeVars, detectVars, flowVars>>

ScoreNext == ScoreRow

ScoreSpec == ScoreInit /\ [][ScoreNext]_vars

-----------------------------------------------------------------------------
(* Properties of score_row (ScoreSpec).                                    *)

\* a row with its four values present
FullRow(r) == ~IsNaN(r.value) /\ ~IsNaN(r.pred) /\ ~IsNaN(r.lower) /\ ~IsNaN(r.upper)

\* upper - lower <= 1e-9, for values of d = 1
NarrowInterval(r) ==
    \/ r.upper.i < r.lower.i
    \/ r.upper.i = r.lower.i /\ r.upper.e - r.lower.e <= 1

\* |actual - pred| = k + m * 1e-9 with k, m >= 0, for values of d = 1
AbsError(r) ==
    IF r.value.i > r.pred.i \/ (r.value.i = r.pred.i /\ r.value.e >= r.pred.e)
    THEN Num(r.value.i - r.pred.i, r.value.e - r.pred.e)
    ELSE Num(r.pred.i - r.value.i, r.pred.e - r.value.e)

\* the score s is the integer k
ScoreIs(s, k) ==
    IF "num" \in DOMAIN s
    THEN /\ s.num.i * s.den.d = k * s.den.i * s.num.d
         /\ s.num.e * s.den.d = k * s.den.e * s.num.d
    ELSE s.i = k * s.d /\ s.e = 0

ExampleRow(a, p, l, u) ==
    [value |-> Num(a, 0), pred |-> Num(p, 0), lower |-> Num(l, 0), upper |-> Num(u, 0)]

ScoredWide == sstep = "scored" /\ FullRow(srow) /\ ~NarrowInterval(srow)

\* pred is the middle of [lower, upper]
Centred(r) ==
    /\ 2 * r.pred.i = r.lower.i + r.upper.i
    /\ 2 * r.pred.e = r.lower.e + r.upper.e

\* the scores of the rows whose actual is pred, lower and upper
AtPredAndBounds ==
    /\ srow.value = srow.pred => ScoreIs(score, 0)
    /\ srow.value = srow.lower => ScoreIs(score, 1)
    /\ srow.value = srow.upper => ScoreIs(score, 1)

\* C21: for every row with upper - lower > 1e-9 the score is 0 when actual
\* = pred and exactly 1 when actual = lower and when actual = upper.
C21_ZeroAtPredOneAtBounds == ScoredWide => AtPredAndBounds

\* the same, for the rows whose pred is the middle of the interval
ZeroAtPredOneAtBoundsWhenCentred == (ScoredWide /\ Centred(srow)) => AtPredAndBounds

\* lower <= actual <= upper
Inside(r) == LessEq(r.lower, r.value) /\ LessEq(r.value, r.upper)

\* the distance of actual from the nearest bound, for actual outside
DistanceOutside(r) ==
    IF LessThan(r.value, r.lower) THEN Sub(r.lower, r.value) ELSE Sub(r.value, r.upper)

\* 0 <= score <= 1, for score = num / den
InUnitRange(s) ==
    /\ ~IsNegative(s.num)
    /\ LessEq(Num(s.num.i * s.den.d, s.num.e * s.den.d),
              Num(s.den.i * s.num.d, s.den.e * s.num.d))

\* score = 1 + dist / den and score > 1, for score = num / den
OnePlus(s, dist) ==
    /\ s.num.i * s.den.d = s.den.i * s.num.d + dist.i * s.den.d
    /\ s.num.e * s.den.d = s.den.e * s.num.d + dist.e * s.den.d
    /\ LessThan(Num(s.den.i * s.num.d, s.den.e * s.num.d),
                Num(s.num.i * s.den.d, s.num.e * s.den.d))

InsideOutside ==
    /\ Inside(srow) => InUnitRange(score)
    /\ ~Inside(srow) => OnePlus(score, DistanceOutside(srow))

\* C22: for every row with upper - lower > 1e-9, an actual inside [lower,
\* upper] scores in [0, 1] and an actual outside scores 1 + (distance from
\* the nearest bound) / (half the width), strictly above 1.
C22_InsideUnitOutsideAboveOne == ScoredWide => InsideOutside

\* the same, for the rows whose pred is the middle of the interval
InsideUnitOutsideAboveOneWhenCentred == (ScoredWide /\ Centred(srow)) => InsideOutside

-----------------------------------------------------------------------------
(* The detection run, detect_anomalies_flow: four reads, the outer merge   *)
(* of the forecast parts, the inner merge with the realtime panel, the     *)
(* scores and their write.  A frame is the sequence of its rows, a row a   *)
(* record of its columns.                                                  *)

\* the timestamps (seconds) and unique_ids of the panels every combination
\* of which is read: series A at both timestamps, series B at the first
Timestamps == {0, 60}
SeriesIds == {"A", "B"}
Cells == (Timestamps \X SeriesIds) \ {<<60, "B">>}

\* the order of the unique_ids in a response
IdRank(s) == IF s = "A" THEN 1 ELSE 2

\* the sample a panel holds at a cell: the two series have different values,
\* predictions and interval widths
Base(t, s) == (t \div 60) + (IF s = "A" THEN 10 ELSE 20)
Spread(s) == IF s = "A" THEN 2 ELSE 4
ValueOf(c, t, s) ==
    CASE c = "value" -> Num(Base(t, s) + 3, 0)
      [] c = "pred" -> Num(Base(t, s), 0)
      [] c = "lower" -> Num(Base(t, s) - Spread(s), 0)
      [] c = "upper" -> Num(Base(t, s) + Spread(s), 0)

Key(r) == <<r.timestamp, r.unique_id>>
KeyLess(x, y) == x[1] < y[1] \/ (x[1] = y[1] /\ IdRank(x[2]) < IdRank(y[2]))
SeriesMajorLess(x, y) == IdRank(x[2]) < IdRank(y[2]) \/ (x[2] = y[2] /\ x[1] < y[1])
KeysOf(F) == {Key(F[i]) : i \in DOMAIN F}

\* the keys in lexicographic order: (timestamp, unique_id)
RECURSIVE SortedKeySeq(_)
SortedKeySeq(K) ==
    IF K = {} THEN <<>>
    ELSE LET m == CHOOSE k \in K : \A o \in K \ {k} : KeyLess(k, o)
         IN  <<m>> \o SortedKeySeq(K \ {m})

\* the cells in the order of a response: series by series, each in time order
RECURSIVE SeriesMajorSeq(_)
SeriesMajorSeq(K) ==
    IF K = {} THEN <<>>
    ELSE LET m == CHOOSE k \in K : \A o \in K \ {k} : SeriesMajorLess(k, o)
         IN  <<m>> \o SeriesMajorSeq(K \ {m})

\* read_metric's result [timestamp, unique_id, value] for the cells K of
\* the component c
PanelOf(K, c) ==
    LET ks == SeriesMajorSeq(K)
    IN  [i \in DOMAIN ks |->
            [timestamp |-> ks[i][1], unique_id |-> ks[i][2],
             value |-> ValueOf(c, ks[i][1], ks[i][2])]]

\* series A at the timestamps ts
SeriesA(ts, c) == PanelOf(ts \X {"A"}, c)

\* the four reads of a run: realtime, anomaly_pred, anomaly_lower, anomaly_upper
Reads(r, p, l, u) == [real |-> r, pred |-> p, lower |-> l, upper |-> u]

\* every combination of cells in the four panels
GeneralReads ==
    {Reads(PanelOf(r, "value"), PanelOf(p, "pred"), PanelOf(l, "lower"), PanelOf(u, "upper")) :
        r \in SUBSET Cells, p \in SUBSET Cells, l \in SUBSET Cells, u \in SUBSET Cells}

\* realtime at 0, 60, 120 and a forecast at 60, 120, 180 for the same series
JoinExample ==
    Reads(SeriesA({0, 60, 120}, "value"), SeriesA({60, 120, 180}, "pred"),
          SeriesA({60, 120, 180}, "lower"), SeriesA({60, 120, 180}, "upper"))

\* realtime with 5 points and a forecast that overlaps it at 3 timestamps
EndToEndExample ==
    Reads(SeriesA({0, 60, 120, 180, 240}, "value"), SeriesA({120, 180, 240, 300}, "pred"),
          SeriesA({120, 180, 240, 300}, "lower"), SeriesA({120, 180, 240, 300}, "upper"))

\* a realtime query that matches two metrics of the same labels: their rows
\* get the same unique_id, because the metric name is no part of it
TwoMetricsExample ==
    Reads(SeriesA({0}, "value") \o SeriesA({0}, "pred"), SeriesA({0}, "pred"),
          SeriesA({0}, "lower"), SeriesA({0}, "upper"))

\* the confidence levels a forecast is asked with: none, 0.9, 0.5
ConfidenceLevels == {"None", "0.9", "0.5"}

\* a forecast whose bounds lie Spread away from its prediction
PredictWithInterval(K, confidence_level) ==
    LET ks == SeriesMajorSeq(K)
    IN  [i \in DOMAIN ks |->
            [timestamp |-> ks[i][1], unique_id |-> ks[i][2],
             pred |-> ValueOf("pred", ks[i][1], ks[i][2]),
             lower |-> ValueOf("lower", ks[i][1], ks[i][2]),
             upper |-> ValueOf("upper", ks[i][1], ks[i][2])]]

\* LgbmModel.predict for the cells K: the frame [timestamp, unique_id,
\* pred, lower, upper] with result['lower'] = result['pred'] and
\* result['upper'] = result['pred']; confidence_level is not read
LgbmModel_predict(K, confidence_level) ==
    LET ks == SeriesMajorSeq(K)
        pred == [i \in DOMAIN ks |-> ValueOf("pred", ks[i][1], ks[i][2])]
    IN  [i \in DOMAIN ks |->
            [timestamp |-> ks[i][1], unique_id |-> ks[i][2],
             pred |-> pred[i], lower |-> pred[i], upper |-> pred[i]]]

\* TimesNetModel.predict: the same two assignments
TimesNetModel_predict(K, confidence_level) ==
    LET ks == SeriesMajorSeq(K)
        pred == [i \in DOMAIN ks |-> ValueOf("pred", ks[i][1], ks[i][2])]
    IN  [i \in DOMAIN ks |->
            [timestamp |-> ks[i][1], unique_id |-> ks[i][2],
             pred |-> pred[i], lower |-> pred[i], upper |-> pred[i]]]

\* the panel read of the column col that forecast_flow wrote of the forecast F
WrittenColumn(F, col) ==
    [i \in DOMAIN F |->
        [timestamp |-> F[i].timestamp, unique_id |-> F[i].unique_id, value |-> F[i][col]]]

\* the forecasts of the two backends: every choice of cells and confidence level
PointForecasts ==
    {LgbmModel_predict(K, c) : K \in (SUBSET Cells) \ {{}}, c \in ConfidenceLevels}
        \cup {TimesNetModel_predict(K, c) : K \in (SUBSET Cells) \ {{}}, c \in ConfidenceLevels}

\* the reads of a run over a forecast of LgbmModel or TimesNetModel, with
\* every combination of realtime cells
PointReads ==
    {Reads(PanelOf(r, "value"), WrittenColumn(F, "pred"),
           WrittenColumn(F, "lower"), WrittenColumn(F, "upper")) :
        r \in SUBSET Cells, F \in PointForecasts}

\* df.rename(columns={'value': col})
Rename(F, col) ==
    [i \in DOMAIN F |->
        [timestamp |-> F[i].timestamp, unique_id |-> F[i].unique_id] @@ (col :> F[i].value)]

RowsWith(F, k) == LET HasKey(r) == Key(r) = k IN SelectSeq(F, HasKey)

RECURSIVE Flatten(_)
Flatten(qs) == IF qs = <<>> THEN <<>> ELSE Head(qs) \o Flatten(Tail(qs))

\* the rows of one key in L.merge(R, on=['timestamp', 'unique_id'], how='outer'):
\* every pair of an L row and an R row of that key; a row found on one side
\* only gets nan in the columns of the other side
OuterRows(L, R, k, blank, col) ==
    LET Lk == RowsWith(L, k)
        Rk == RowsWith(R, k)
    IN  IF Lk = <<>>
        THEN [j \in DOMAIN Rk |->
                 [timestamp |-> k[1], unique_id |-> k[2]] @@ blank @@ (col :> Rk[j].value)]
        ELSE IF Rk = <<>>
        THEN [i \in DOMAIN Lk |-> Lk[i] @@ (col :> NaN)]
        ELSE Flatten([i \in DOMAIN Lk |->
                         [j \in DOMAIN Rk |-> Lk[i] @@ (col :> Rk[j].value)]])

\* a left merge: the keys of L only
MergeLeftKeys(L, R, blank, col) ==
    LET ks == SortedKeySeq(KeysOf(L))
    IN  Flatten([n \in DOMAIN ks |-> OuterRows(L, R, ks[n], blank, col)])

\* L.merge(R.rename(columns={'value': col}), on=[...], how='outer'): the keys
\* of both frames, sorted
MergeOuter(L, R, blank, col) ==
    LET ks == SortedKeySeq(KeysOf(L) \cup KeysOf(R))
    IN  Flatten([n \in DOMAIN ks |-> OuterRows(L, R, ks[n], blank, col)])

\* the rows of R that a row l of L is merged with by a left and an inner merge
LeftRows(l, R) ==
    LET Rk == RowsWith(R, Key(l))
    IN  IF Rk = <<>> THEN <<l @@ [pred |-> NaN, lower |-> NaN, upper |-> NaN]>>
        ELSE [j \in DOMAIN Rk |-> l @@ Rk[j]]
InnerRows(l, R) ==
    LET Rk == RowsWith(R, Key(l))
    IN  [j \in DOMAIN Rk |-> l @@ Rk[j]]

\* L.merge(R, on=['timestamp', 'unique_id'], how='inner'): the keys of both
\* frames, in the order of L
MergeInnerOnTimestamp(L, R) ==
    Flatten([i \in DOMAIN L |->
                LET Rt == SelectSeq(R, LAMBDA r : r.timestamp = L[i].timestamp)
                IN  [j \in DOMAIN Rt |-> Rt[j] @@ L[i]]])

MergeInner(L, R) == Flatten([i \in DOMAIN L |-> InnerRows(L[i], R)])

\* the order of the rows of a join on an index that holds a timestamp more
\* than once, which depends on the pandas release: that of the left frame,
\* or timestamp by timestamp, in the order the timestamps first appear or in
\* ascending order
JoinOrders == {"left", "grouped", "sorted"}

UniqueTimestamps(F) == \A i, j \in DOMAIN F : F[i].timestamp = F[j].timestamp => i = j

RECURSIVE SortedTimestamps(_)
SortedTimestamps(S) ==
    IF S = {} THEN <<>>
    ELSE LET m == CHOOSE x \in S : \A o \in S : x <= o
         IN  <<m>> \o SortedTimestamps(S \ {m})

RowsAt(F, ts) == LET At_ts(r) == r.timestamp = ts IN SelectSeq(F, At_ts)

\* the rows a row l of the left frame gives in the join: one for each row of
\* the right frame with l's timestamp, whatever its unique_id
JoinRows(l, R) ==
    LET Rt == RowsAt(R, l.timestamp)
    IN  [j \in DOMAIN Rt |->
            [timestamp |-> l.timestamp, value |-> l.value,
             pred |-> Rt[j].pred, lower |-> Rt[j].lower, upper |-> Rt[j].upper]]

\* realtime_df[['value']].join(forecast_df[['pred', 'lower', 'upper']], how='inner'),
\* both frames indexed by timestamp
JoinOnTimestamp(L, R, order) ==
    IF order = "left" \/ UniqueTimestamps(L)
    THEN Flatten([i \in DOMAIN L |-> JoinRows(L[i], R)])
    ELSE LET all == [i \in DOMAIN L |-> L[i].timestamp]
             ts == IF order = "sorted" THEN SortedTimestamps(SeqToSet(all))
                   ELSE Distinct(<<>>, all)
         IN  Flatten([n \in DOMAIN ts |->
                 LET Lt == RowsAt(L, ts[n])
                 IN  Flatten([i \in DOMAIN Lt |-> JoinRows(Lt[i], R)])])

\* calculate_anomaly_score(realtime_df, forecast_df): [timestamp, anomaly_score]
calculate_anomaly_score(realtime_df, forecast_df, order) ==
    IF realtime_df = <<>> \/ forecast_df = <<>> THEN <<>>
    ELSE LET joined == JoinOnTimestamp(realtime_df, forecast_df, order)
         IN  [i \in DOMAIN joined |->
                 [timestamp |-> joined[i].timestamp, anomaly_score |-> score_row(joined[i])]]

\* merged['anomaly_score'] = result['anomaly_score']: both frames have the
\* index 0, 1, 2, ..., and the column is aligned on it
AssignScores(F, result) ==
    [i \in DOMAIN F |->
        F[i] @@ [anomaly_score |-> IF i \in DOMAIN result THEN result[i].anomaly_score ELSE NaN]]

\* a request to the TSDB: a range query (read_metric) or a CSV import
\* (write_metric), the query or metric name it carries and whether it succeeded
Request(op, name, ok) == [op |-> op, name |-> name, ok |-> ok]

\* query = promql or metric_name
Query == "query"

\* the queries of the four reads of a detection run, in the order of the calls
DetectQueries == <<Query, "anomaly_pred", "anomaly_lower", "anomaly_upper">>

\* the first n reads, the last of which raises when failed is true
ReadRequests(n, failed) ==
    [i \in 1..n |-> Request("read", DetectQueries[i], ~(failed /\ i = n))]

DetectInit ==
    /\ CacheOff
    /\ CodecOff
    /\ PanelOff /\ WriteOff /\ ScoreOff
    /\ real_df = <<>>
    /\ pred_df = <<>>
    /\ lower_df = <<>>
    /\ upper_df = <<>>
    /\ forecast_full = <<>>
    /\ merged = <<>>
    /\ scored = <<>>
    /\ export_df = <<>>
    /\ dpc = "fetch"
    /\ fpc = "off"
    /\ io = <<>>

\* real_df, pred_df, lower_df, upper_df = read_metric(...): the four reads return
FetchPanels ==
    /\ dpc = "fetch"
    /\ \E reads \in GeneralReads \cup PointReads
                      \cup {JoinExample, EndToEndExample, TwoMetricsExample} :
          /\ real_df' = reads.real
          /\ pred_df' = reads.pred
          /\ lower_df' = reads.lower
          /\ upper_df' = reads.upper
    /\ io' = ReadRequests(4, FALSE)
    /\ dpc' = "read"
    /\ UNCHANGED <<forecast_full, merged, scored, export_df,
                   cacheVars, codecVars, panelVars, writeVars, scoreVars, fpc>>

\* the n-th read raises (prom.get_metric_range_data, or the frame built of
\* its result): nothing in read_metric or in the flow catches it
FetchRaise ==
    /\ dpc = "fetch"
    /\ \E n \in 1..4, reads \in GeneralReads :
          /\ real_df' = IF n > 1 THEN reads.real ELSE <<>>
          /\ pred_df' = IF n > 2 THEN reads.pred ELSE <<>>
          /\ lower_df' = IF n > 3 THEN reads.lower ELSE <<>>
          /\ upper_df' = <<>>
          /\ io' = ReadRequests(n, TRUE)
    /\ dpc' = "raised"
    /\ UNCHANGED <<forecast_full, merged, scored, export_df,
                   cacheVars, codecVars, panelVars, writeVars, scoreVars, fpc>>

\* if real_df.empty or pred_df.empty: return
SkipInsufficient ==
    /\ dpc = "read"
    /\ real_df = <<>> \/ pred_df = <<>>
    /\ dpc' = "skipped"
    /\ UNCHANGED <<real_df, pred_df, lower_df, upper_df, forecast_full, merged, scored,
                   export_df, cacheVars, codecVars, panelVars, writeVars, scoreVars, fpc, io>>

\* pred_df.merge(lower_df, ...).merge(upper_df, ...): the frame read_metric
\* returns for an empty read has no unique_id column, and the merge raises
MergeForecastRaise ==
    /\ dpc = "read"
    /\ real_df # <<>> /\ pred_df # <<>>
    /\ lower_df = <<>> \/ upper_df = <<>>
    /\ dpc' = "raised"
    /\ UNCHANGED <<real_df, pred_df, lower_df, upper_df, forecast_full, merged, scored,
                   export_df, cacheVars, codecVars, panelVars, writeVars, scoreVars, fpc, io>>

\* forecast_full = pred_df.merge(lower_df, how='outer').merge(upper_df, how='outer')
MergeForecast ==
    /\ dpc = "read"
    /\ real_df # <<>> /\ pred_df # <<>> /\ lower_df # <<>> /\ upper_df # <<>>
    /\ forecast_full' =
          MergeOuter(MergeOuter(Rename(pred_df, "pred"), lower_df, [pred |-> NaN], "lower"),
                     upper_df, [pred |-> NaN, lower |-> NaN], "upper")
    /\ dpc' = "forecast"
    /\ UNCHANGED <<real_df, pred_df, lower_df, upper_df, merged, scored,
                   export_df, cacheVars, codecVars, panelVars, writeVars, scoreVars, fpc, io>>

\* merged = real_df.merge(forecast_full, on=['timestamp', 'unique_id'], how='inner')
MergeRealtime ==
    /\ dpc = "forecast"
    /\ merged' = MergeInner(real_df, forecast_full)
    /\ dpc' = "merged"
    /\ UNCHANGED <<real_df, pred_df, lower_df, upper_df, forecast_full, scored,
                   export_df, cacheVars, codecVars, panelVars, writeVars, scoreVars, fpc, io>>

\* if merged.empty: return
SkipNoOverlap ==
    /\ dpc = "merged"
    /\ merged = <<>>
    /\ dpc' = "skipped"
    /\ UNCHANGED <<real_df, pred_df, lower_df, upper_df, forecast_full, merged, scored,
                   export_df, cacheVars, codecVars, panelVars, writeVars, scoreVars, fpc, io>>

\* merged['anomaly_score'] = calculate_anomaly_score(merged, merged)['anomaly_score']
ScoreMerged ==
    /\ dpc = "merged"
    /\ merged # <<>>
    /\ \E order \in JoinOrders :
          /\ scored' = calculate_anomaly_score(merged, merged, order)
          /\ merged' = AssignScores(merged, scored')
    /\ dpc' = "scored"
    /\ UNCHANGED <<real_df, pred_df, lower_df, upper_df, forecast_full,
                   export_df, cacheVars, codecVars, panelVars, writeVars, scoreVars, fpc, io>>

\* write_metric(merged[['timestamp', 'unique_id', 'anomaly_score']], "anomaly_score")
WriteScores ==
    /\ dpc = "scored"
    /\ export_df' = [i \in DOMAIN merged |->
                        [timestamp |-> merged[i].timestamp, unique_id |-> merged[i].unique_id,
                         anomaly_score |-> merged[i].anomaly_score]]
    /\ \E ok \in BOOLEAN : io' = Append(io, Request("write", "anomaly_score", ok))
    /\ dpc' = "done"
    /\ UNCHANGED <<real_df, pred_df, lower_df, upper_df, forecast_full, merged, scored,
                   cacheVars, codecVars, panelVars, writeVars, scoreVars, fpc>>

DetectNext ==
    \/ FetchPanels
    \/ FetchRaise
    \/ SkipInsufficient
    \/ MergeForecastRaise
    \/ MergeForecast
    \/ MergeRealtime
    \/ SkipNoOverlap
    \/ ScoreMerged
    \/ WriteScores

DetectSpec == DetectInit /\ [][DetectNext]_vars

-----------------------------------------------------------------------------
(* Properties of the detection run (DetectSpec).                           *)

\* the forecast parts have been merged; the realtime panel has been merged
OuterJoined ==
    dpc \in {"forecast", "merged", "scored", "done"} \/ (dpc = "skipped" /\ forecast_full # <<>>)
InnerJoined ==
    dpc \in {"merged", "scored", "done"} \/ (dpc = "skipped" /\ forecast_full # <<>>)

ReadsAre(reads) ==
    /\ real_df = reads.real
    /\ pred_df = reads.pred
    /\ lower_df = reads.lower
    /\ upper_df = reads.upper

\* C16: the inner join of the realtime panel with the forecast tuples holds
\* exactly the (timestamp, series) pairs present in both; realtime at 0, 60,
\* 120 and forecast at 60, 120, 180 for one series give exactly 60 and 120.
C16_InnerJoinPairs ==
    InnerJoined =>
        /\ KeysOf(merged) = KeysOf(real_df) \cap KeysOf(forecast_full)
        /\ ReadsAre(JoinExample) => KeysOf(merged) = {<<60, "A">>, <<120, "A">>}

\* the example's panels, joined
C16_Witness ==
    /\ dpc = "merged"
    /\ ReadsAre(JoinExample)
    /\ Len(merged) = 2

\* the value a panel holds for a pair, nan when it holds none
ComponentAt(F, k) ==
    IF k \in KeysOf(F) THEN F[CHOOSE i \in DOMAIN F : Key(F[i]) = k].value ELSE NaN

\* C17: the outer join of the pred, lower and upper panels has exactly one
\* record for each (timestamp, series) pair of at least one of them; the
\* record carries the value of each component present for the pair, and a
\* component absent for the pair is missing in it.
C17_OuterJoinRecords ==
    OuterJoined =>
        /\ KeysOf(forecast_full) = KeysOf(pred_df) \cup KeysOf(lower_df) \cup KeysOf(upper_df)
        /\ \A i, j \in DOMAIN forecast_full :
               Key(forecast_full[i]) = Key(forecast_full[j]) => i = j
        /\ \A i \in DOMAIN forecast_full :
               /\ forecast_full[i].pred = ComponentAt(pred_df, Key(forecast_full[i]))
               /\ forecast_full[i].lower = ComponentAt(lower_df, Key(forecast_full[i]))
               /\ forecast_full[i].upper = ComponentAt(upper_df, Key(forecast_full[i]))

\* a pair that only the lower panel holds, and one that only the pred panel holds
C17_Witness ==
    /\ dpc = "forecast"
    /\ \E i \in DOMAIN forecast_full :
          /\ IsNaN(forecast_full[i].pred)
          /\ ~IsNaN(forecast_full[i].lower)
          /\ IsNaN(forecast_full[i].upper)
    /\ \E i \in DOMAIN forecast_full :
          /\ ~IsNaN(forecast_full[i].pred)
          /\ IsNaN(forecast_full[i].lower)
          /\ IsNaN(forecast_full[i].upper)

\* the score of a row of merged computed from the row's own columns
OwnScore(r) ==
    score_row([value |-> r.value, pred |-> r.pred, lower |-> r.lower, upper |-> r.upper])

\* C18: the anomaly score written for a (timestamp, series) pair is computed
\* from the actual value, pred, lower and upper of that same pair, for any
\* number of series.
C18_ScoreOfOwnPair ==
    dpc = "done" =>
        \A i \in DOMAIN export_df : export_df[i].anomaly_score = OwnScore(merged[i])

\* the same, for the runs in which no two matched rows share a timestamp
ScoreOfOwnPairWhenTimestampsUnique ==
    (dpc = "done" /\ UniqueTimestamps(merged)) =>
        \A i \in DOMAIN export_df : export_df[i].anomaly_score = OwnScore(merged[i])

\* the rows written for the pair k
RowsWritten(k) == {i \in DOMAIN export_df : Key(export_df[i]) = k}

NoDuplicate(F) == \A i, j \in DOMAIN F : Key(F[i]) = Key(F[j]) => i = j

InputsDistinct ==
    /\ NoDuplicate(real_df)
    /\ NoDuplicate(pred_df)
    /\ NoDuplicate(lower_df)
    /\ NoDuplicate(upper_df)

\* C35: when no panel read holds a (timestamp, series) pair twice, neither
\* the outer join of pred, lower and upper, nor the inner join with
\* realtime, nor the scored panel the run writes holds a pair twice, with
\* one series or several.
C35_JoinsKeepPairsDistinct ==
    InputsDistinct =>
        /\ NoDuplicate(forecast_full)
        /\ NoDuplicate(merged)
        /\ NoDuplicate(export_df)

\* a run over two series that share a timestamp has written its three rows
C35_Witness ==
    /\ dpc = "done"
    /\ InputsDistinct
    /\ KeysOf(forecast_full) = Cells
    /\ KeysOf(merged) = Cells
    /\ KeysOf(export_df) = Cells
    /\ Len(export_df) = Cardinality(Cells)

\* the run read the forecast of a LgbmModel or TimesNetModel backend
PointForecastRead == \E reads \in PointReads : ReadsAre(reads)

\* every point of the forecast has lower = upper = pred
PointForecast(F) ==
    \A i \in DOMAIN F : ~IsNaN(F[i].pred) /\ F[i].lower = F[i].pred /\ F[i].upper = F[i].pred

\* the score is |actual - pred| of the row r, computed by the branch of
\* upper - lower <= 1e-9, and no quotient by half a width
DegenerateScore(r, s) ==
    /\ LessEq(Sub(r.upper, r.lower), Epsilon)
    /\ s = Abs(Sub(r.value, r.pred))
    /\ "den" \notin DOMAIN s

\* C38: with the LgbmModel or TimesNetModel backend every forecast point
\* has lower = upper = pred whatever the confidence level, so every score
\* the detection run computes against such a forecast is computed by the
\* degenerate branch and equals |actual - pred| of the row scored, not a
\* bound-relative value.
C38_PointForecastScoresAbsoluteError ==
    PointForecastRead =>
        /\ dpc \in {"forecast", "merged", "skipped", "scored", "done"} =>
              PointForecast(forecast_full)
        /\ dpc \in {"scored", "done"} =>
              \E order \in JoinOrders :
                  LET joined == JoinOnTimestamp(merged, merged, order)
                  IN  /\ DOMAIN scored = DOMAIN joined
                      /\ \A i \in DOMAIN joined :
                            DegenerateScore(joined[i], scored[i].anomaly_score)
        /\ dpc = "done" =>
              \A i \in DOMAIN export_df : "den" \notin DOMAIN export_df[i].anomaly_score

\* a run over the point forecast of two series has written the score 3 =
\* |actual - pred| for each of its three pairs
C38_Witness ==
    /\ dpc = "done"
    /\ PointForecastRead
    /\ KeysOf(export_df) = Cells
    /\ \E i \in DOMAIN export_df : export_df[i].anomaly_score = Num(3, 0)
    /\ \E i \in DOMAIN scored : scored[i].anomaly_score = Num(7, 0)

\* a matched row whose pred, lower or upper is missing after the outer join
Incomplete(r) == IsNaN(r.pred) \/ IsNaN(r.lower) \/ IsNaN(r.upper)

\* C23: a (timestamp, series) pair whose pred, lower or upper is missing
\* after the outer join has no anomaly_score row in the rows the detection
\* run writes.
C23_NoRowForIncompletePair ==
    dpc = "done" => \A i \in DOMAIN export_df : ~Incomplete(merged[i])

\* the row written for such a pair has a missing score when no two matched
\* rows share a timestamp
IncompletePairScoresNaNWhenTimestampsUnique ==
    (dpc = "done" /\ UniqueTimestamps(merged)) =>
        \A i \in DOMAIN export_df : Incomplete(merged[i]) => IsNaN(export_df[i].anomaly_score)

\* the four reads of the run returned
AllRead == Len(io) >= 4 /\ \A i \in 1..4 : io[i].ok

\* no write request was made
NothingWritten == \A i \in DOMAIN io : io[i].op # "write"

\* C25: in a detection run whose four reads return, an empty result of any
\* of them or an empty join is no error: the run does not raise, it ends
\* skipped and writes nothing.
C25_EmptyFetchOrJoinSkips ==
    AllRead =>
        /\ (real_df = <<>> \/ pred_df = <<>> \/ lower_df = <<>> \/ upper_df = <<>>) =>
               dpc \in {"read", "skipped"} /\ NothingWritten
        /\ (InnerJoined /\ merged = <<>>) => dpc \in {"merged", "skipped"} /\ NothingWritten

\* the same, for an empty realtime or anomaly_pred result and for an empty join
EmptyRealtimeOrPredOrJoinSkips ==
    AllRead =>
        /\ (real_df = <<>> \/ pred_df = <<>>) => dpc \in {"read", "skipped"} /\ NothingWritten
        /\ (InnerJoined /\ merged = <<>>) => dpc \in {"merged", "skipped"} /\ NothingWritten

-----------------------------------------------------------------------------
(* The forecast run, forecast_flow: the read of the context, the call of   *)
(* load_and_predict (the steps of run r1 above) and the three writes.  io  *)
(* is the sequence of the requests the run made to the TSDB.               *)

\* the metric names of the three writes, in the order of the calls; the
\* second list is the first with its bounds exchanged
ForecastNamesBoundsFirst == <<"anomaly_lower", "anomaly_pred", "anomaly_upper">>
ForecastNames == <<"anomaly_pred", "anomaly_lower", "anomaly_upper">>

\* the write requests made so far
Writes == SelectSeq(io, LAMBDA q : q.op = "write")

ForecastInit ==
    /\ now = StartTime
    /\ store \in [Keys -> {NoArtifact, OldArtifact}]
    /\ run = [r \in Runs |-> IdleRun]
    /\ CodecOff
    /\ PanelOff /\ WriteOff /\ DetectOff /\ ScoreOff
    /\ fpc = "fetch"
    /\ io = <<>>

\* df = read_metric(query=promql, ...) returns rows
FetchContext ==
    /\ fpc = "fetch"
    /\ io' = Append(io, Request("read", Query, TRUE))
    /\ fpc' = "resolve"
    /\ UNCHANGED <<cacheVars, codecVars, panelVars, writeVars, detectVars, scoreVars>>

\* df = read_metric(...) returns no row; if df.empty: return
FetchNoContext ==
    /\ fpc = "fetch"
    /\ io' = Append(io, Request("read", Query, TRUE))
    /\ fpc' = "skipped"
    /\ UNCHANGED <<cacheVars, codecVars, panelVars, writeVars, detectVars, scoreVars>>

\* read_metric raises: nothing in read_metric or in the flow catches it
FetchContextCaught ==
    /\ fpc = "fetch"
    /\ io' = Append(io, Request("read", Query, FALSE))
    /\ fpc' = "resolve"
    /\ UNCHANGED <<cacheVars, codecVars, panelVars, writeVars, detectVars, scoreVars>>

FetchContextRaise ==
    /\ fpc = "fetch"
    /\ io' = Append(io, Request("read", Query, FALSE))
    /\ fpc' = "raised"
    /\ UNCHANGED <<cacheVars, codecVars, panelVars, writeVars, detectVars, scoreVars>>

\* forecast_df = load_and_predict(context_df=df, model_type=model_type, ...):
\* the flow calls the task once, with the flow's parameters
CallLoadAndPredict ==
    /\ fpc = "resolve"
    /\ run["r1"].ncalls = 0
    /\ Start("r1")
    /\ run'["r1"].impl = "load_and_predict"

\* load_and_predict returns its forecast
ReturnBeforePredict ==
    /\ fpc = "resolve"
    /\ run["r1"].pc \in {"predict", "done"}
    /\ fpc' = "write"
    /\ UNCHANGED <<io, cacheVars, codecVars, panelVars, writeVars, detectVars, scoreVars>>

ReturnForecast ==
    /\ fpc = "resolve"
    /\ run["r1"].pc = "done"
    /\ fpc' = "write"
    /\ UNCHANGED <<io, cacheVars, codecVars, panelVars, writeVars, detectVars, scoreVars>>

\* load_and_predict raises (the selector, the constructor, fit or predict):
\* the flow does not catch it
PropagateRaise ==
    /\ fpc = "resolve"
    /\ run["r1"].pc = "raised"
    /\ fpc' = "raised"
    /\ UNCHANGED <<io, cacheVars, codecVars, panelVars, writeVars, detectVars, scoreVars>>

\* write_metric(forecast_df[[...]], metric_name=...): the next of the three
\* writes; requests.post or raise_for_status may raise, and `except
\* Exception` prints it
WriteMetricRaises ==
    /\ fpc = "write"
    /\ \E ok \in BOOLEAN :
          /\ io' = Append(io, Request("write", ForecastNames[Len(Writes) + 1], ok))
          /\ fpc' = IF ~ok THEN "raised" ELSE IF Len(Writes) + 1 = 3 THEN "done" ELSE "write"
    /\ UNCHANGED <<cacheVars, codecVars, panelVars, writeVars, detectVars, scoreVars>>

WriteMetric ==
    /\ fpc = "write"
    /\ \E ok \in BOOLEAN :
          /\ io' = Append(io, Request("write", ForecastNames[Len(Writes) + 1], ok))
          /\ fpc' = IF Len(Writes) + 1 = 3 THEN "done" ELSE "write"
    /\ UNCHANGED <<cacheVars, codecVars, panelVars, writeVars, detectVars, scoreVars>>

\* the steps of a forecast run; load_and_predict knows only the shipped
\* classes, whose load raises (LoadCanSucceed), so LoadOk and LoadIoRaise
\* are no steps of it
ForecastNext ==
    \/ FetchContext
    \/ FetchNoContext
    \/ FetchContextRaise
    \/ CallLoadAndPredict
    \/ ProbeNoPath("r1")
    \/ ProbeStore("r1")
    \/ ProbeRaise("r1")
    \/ ProbeNoMtime("r1")
    \/ LoadRaise("r1")
    \/ FitOk("r1")
    \/ FitRaise("r1")
    \/ SaveNothing("r1")
    \/ SaveOpen("r1")
    \/ SaveOpenRaise("r1")
    \/ SaveWrite("r1")
    \/ SaveWriteRaise("r1")
    \/ PredictOk("r1")
    \/ PredictRaise("r1")
    \/ ReturnForecast
    \/ PropagateRaise
    \/ WriteMetric

\* a run of either flow
FlowInit == ForecastInit \/ DetectInit

FlowNext == ForecastNext \/ DetectNext

FlowSpec == FlowInit /\ [][FlowNext]_vars

-----------------------------------------------------------------------------
(* Properties of the two flows (FlowSpec).                                 *)

\* the read requests made so far, and the names a sequence of requests carries
ReadsMade == SelectSeq(io, LAMBDA q : q.op = "read")
Names(reqs) == [i \in DOMAIN reqs |-> reqs[i].name]


\* the positions of forecast_flow: fetch context, resolve model and predict
\* (the call of load_and_predict), write, done; skipped and raised end the run
FlowSteps ==
    {<<"fetch", "resolve">>, <<"fetch", "skipped">>, <<"fetch", "raised">>,
     <<"resolve", "write">>, <<"resolve", "raised">>,
     <<"write", "write">>, <<"write", "done">>}

\* C24: a forecast run goes through fetch context, resolve model, predict,
\* write, done in that order, each step at most once; a run whose context
\* is empty ends skipped and has not probed the store, loaded, fit,
\* predicted or written.
C24_StepsInOrder ==
    /\ [][fpc' # fpc => <<fpc, fpc'>> \in FlowSteps]_vars
    /\ [](fpc # "off" =>
            /\ fpc # "fetch" => Len(ReadsMade) = 1 /\ io[1] = ReadsMade[1]
            /\ run["r1"].ncalls <= 1
            /\ run["r1"] # IdleRun => fpc \in {"resolve", "write", "done", "raised"} /\ io[1].ok
            /\ \A c \in {"load", "fit", "save", "predict"} : Count(run["r1"].calls, c) <= 1
            /\ \A i, j \in DOMAIN run["r1"].calls :
                   (run["r1"].calls[i] = "predict" /\ j # i) => j < i
            /\ fpc \in {"write", "done"} =>
                   /\ run["r1"].pc = "done"
                   /\ run["r1"].calls[Len(run["r1"].calls)] = "predict"
            /\ Writes # <<>> => fpc \in {"write", "done"}
            /\ fpc = "done" => Len(Writes) = 3
            /\ fpc = "skipped" =>
                   /\ run["r1"] = IdleRun
                   /\ \A k \in Keys : store[k] \in {NoArtifact, OldArtifact}
                   /\ Len(io) = 1)

\* a run that fit, saved, predicted and wrote, done
C24_Witness ==
    /\ fpc = "done"
    /\ run["r1"].calls = <<"fit", "save", "predict">>
    /\ Len(io) = 4

\* a write request that failed
FailedWrite == \E i \in DOMAIN io : io[i].op = "write" /\ ~io[i].ok

\* C26: a failed write request is not raised to the flow: a forecast run
\* makes its three writes whichever of them fail and ends done, and a
\* detection run whose score write fails ends done.
C26_WriteFailureNotRaised ==
    /\ (fpc # "off" /\ FailedWrite) => fpc \in {"write", "done"}
    /\ fpc = "write" => Len(Writes) < 3 /\ ENABLED WriteMetric
    /\ fpc = "done" => Len(Writes) = 3
    /\ (dpc # "off" /\ FailedWrite) => dpc = "done"

\* a forecast run whose three writes all failed, done
C26_Witness ==
    /\ fpc = "done"
    /\ Len(Writes) = 3
    /\ \A i \in 1..3 : ~Writes[i].ok

\* a read request that failed
FailedRead == \E i \in DOMAIN io : io[i].op = "read" /\ ~io[i].ok

\* C27: a failed read aborts the run with the exception: after it the run
\* has raised, no request follows it, nothing was written, and no model was
\* resolved or fit and no artifact saved, in both flows.
C27_ReadFailureAborts ==
    FailedRead =>
        /\ io[Len(io)].op = "read" /\ ~io[Len(io)].ok
        /\ \A i \in 1..(Len(io) - 1) : io[i].ok
        /\ Writes = <<>>
        /\ run["r1"] = IdleRun
        /\ \A k \in Keys : store[k] \in {NoArtifact, OldArtifact}
        /\ fpc # "off" => fpc = "raised"
        /\ dpc # "off" => dpc = "raised" /\ forecast_full = <<>> /\ export_df = <<>>

\* a forecast run whose read of the context failed
C27_Witness ==
    /\ fpc = "raised"
    /\ io = <<Request("read", Query, FALSE)>>

\* C28: a forecast run that reaches its write step makes exactly three
\* writes, under anomaly_pred, anomaly_lower, anomaly_upper in that order; a
\* detection run reads the query, anomaly_pred, anomaly_lower and
\* anomaly_upper and nothing else, and writes only under anomaly_score.
C28_FixedMetricNames ==
    /\ fpc # "off" =>
          /\ Names(Writes) =
                 SubSeq(<<"anomaly_pred", "anomaly_lower", "anomaly_upper">>, 1, Len(Writes))
          /\ fpc = "write" => Len(Writes) < 3 /\ ENABLED WriteMetric
          /\ fpc = "done" => Len(Writes) = 3
          /\ Len(ReadsMade) <= 1
    /\ dpc # "off" =>
          /\ Names(ReadsMade) =
                 SubSeq(<<Query, "anomaly_pred", "anomaly_lower", "anomaly_upper">>,
                        1, Len(ReadsMade))
          /\ (dpc # "fetch" /\ ~FailedRead) => Len(ReadsMade) = 4
          /\ Names(Writes) = SubSeq(<<"anomaly_score">>, 1, Len(Writes))
          /\ dpc = "done" => Len(Writes) = 1

\* a detection run, done: four reads and the write of the scores
C28_Witness ==
    /\ dpc = "done"
    /\ Names(io) = <<Query, "anomaly_pred", "anomaly_lower", "anomaly_upper", "anomaly_score">>

\* the flow has called load_and_predict with a model_type the selector does
\* not know
UnknownTypeCalled == run["r1"].pc # "idle" /\ run["r1"].model_type = UnknownType

\* C37: with an unknown model_type load_and_predict raises ValueError before
\* it probes the store and before any load, fit, save or predict, and the
\* forecast run fails without a write request.
C37_UnknownTypeRaisesBeforeAll ==
    UnknownTypeCalled =>
        /\ run["r1"].pc = "raised"
        /\ run["r1"].err = "ValueError"
        /\ run["r1"].probed = "no"
        /\ run["r1"].calls = <<>>
        /\ run["r1"].caught = {}
        /\ fpc \in {"resolve", "raised"}
        /\ Writes = <<>>

\* the run has failed on the ValueError, having made its one read
C37_Witness ==
    /\ UnknownTypeCalled
    /\ run["r1"].err = "ValueError"
    /\ run["r1"].storage_path # NoPath
    /\ fpc = "raised"
    /\ Names(io) = <<Query>>

-----------------------------------------------------------------------------
(* Ingestion, scripts/load_boom.py: ingest_to_vm turns one input row into  *)
(* the series it sends to the TSDB, and read_metric gives each of them its *)
(* identifier.                                                             *)

\* how many value arrays a row holds at most, and how many points an array
MaxVariates == 3
MaxPoints == 1

\* an element of a value array: None, a float (a Python float or a
\* numpy.float64, which is one), a numpy.float32 (which is no Python float),
\* or an array, held with its first element; val is the number or nan
PyNone == [type |-> "NoneType", val |-> <<>>]
PyFloat(w) == [type |-> "float", val |-> w]
Float32(w) == [type |-> "float32", val |-> w]
NdArray(w) == [type |-> "ndarray", val |-> w]
NaN32 == Float32(PyNaN.val)

\* if hasattr(v, "__len__"): v = v[0], and np.nan when v[0] raises IndexError
FirstOrNaN(v) ==
    IF v.type = "ndarray" THEN (IF v.val = <<>> THEN PyNaN ELSE PyFloat(v.val)) ELSE v

\* isinstance(v, float) and np.isnan(v)
IsFloatNaN(v) == v.type = "float" /\ v.val = PyNaN.val

\* v is not None and not (isinstance(v, float) and np.isnan(v))
IsSample(v) == v # PyNone /\ ~IsFloatNaN(v)

\* the same test without isinstance: v is not None and not np.isnan(v)
IsSampleOfAnyFloat(v) == v # PyNone /\ v.val # PyNaN.val

\* a point of a value array: a number, a nan that is a float, a nan that is
\* a numpy.float32
Points == {PyFloat(<<"1">>), PyNaN, NaN32}
Arrays == UNION {[1..n -> Points] : n \in 0..MaxPoints}

\* row['target']: a 1-d array of points, a 1-d array of arrays (ragged), or a
\* 2-d array (its rows of one length)
Targets(nested) ==
    IF ~nested
    THEN {[ndim |-> 1, nested |-> FALSE, values |-> a] : a \in Arrays}
    ELSE UNION {{[ndim |-> 1, nested |-> TRUE, values |-> v] : v \in [1..n -> Arrays]} :
                  n \in 1..MaxVariates}
         \cup UNION {{[ndim |-> 2, nested |-> TRUE, values |-> v] :
                    v \in {w \in [1..n -> Arrays] : \A i \in 1..n : Len(w[i]) = Len(w[1])}} :
                  n \in 1..MaxVariates}

\* values.ndim > 1, or values.ndim == 1 and len(values) > 0 and values[0] is
\* a list, an array or a Series
is_multivariate(t) == t.ndim > 1 \/ (t.ndim = 1 /\ Len(t.values) > 0 /\ t.nested)

\* str(i) of a small number
Digits == <<"0", "1", "2", "3", "4", "5", "6", "7", "8", "9">>
Str(i) == <<Digits[i + 1]>>

\* metric_base_name, series_id, and series_id.replace('-', '_')
MetricBaseName == <<"b", "o", "o", "m", "_", "m", "e", "t", "r", "i", "c">>
SeriesIdArg == <<"d", "s", "-", "0", "-", "T">>
ReplaceDash(w) == [i \in DOMAIN w |-> IF w[i] = "-" THEN "_" ELSE w[i]]

\* the keys of metric_labels
ItemIdKey == <<"i", "t", "e", "m", "_", "i", "d">>
OriginalStartKey == <<"o", "r", "i", "g", "i", "n", "a", "l", "_", "s", "t", "a", "r", "t">>
SourceKey == <<"s", "o", "u", "r", "c", "e">>
VariateKey == <<"v", "a", "r", "i", "a", "t", "e">>

\* metric_labels of process_single_series: __name__, item_id, original_start
\* and source
BaseLabels ==
    << <<NameColumn, MetricBaseName \o <<"_">> \o ReplaceDash(SeriesIdArg)>>,
       <<ItemIdKey, Str(0)>>,
       <<OriginalStartKey, Str(0)>>,
       <<SourceKey, <<"b", "o", "o", "m", "_", "d", "a", "t", "a", "s", "e", "t">> >> >>

\* if variate_idx is not None: metric_labels["variate"] = str(variate_idx);
\* variate_idx is -1 for None
MetricLabelsWithoutVariate(variate_idx) == BaseLabels
MetricLabels(variate_idx) ==
    IF variate_idx # -1 THEN Append(BaseLabels, <<VariateKey, Str(variate_idx)>>)
    ELSE BaseLabels

\* vm_timestamps of process_single_series is not empty: the loop appended
\* some point of the array
HasPoints(a) == \E i \in DOMAIN a : IsSample(FirstOrNaN(a[i]))

\* all_metric_meta after the variates from i on: `if ts:` appends the labels
RECURSIVE VariateMeta(_, _)
VariateMeta(variates, i) ==
    IF i > Len(variates) THEN <<>>
    ELSE (IF HasPoints(variates[i]) THEN <<MetricLabels(i - 1)>> ELSE <<>>)
         \o VariateMeta(variates, i + 1)

\* all_metric_meta of ingest_to_vm for one row
ingest_to_vm(t) ==
    IF is_multivariate(t) THEN VariateMeta(t.values, 1)
    ELSE IF HasPoints(t.values) THEN <<MetricLabels(-1)>> ELSE <<>>

IngestInit ==
    /\ CacheOff
    /\ CodecOff
    /\ fetch = <<>>
    /\ panel = <<>>
    /\ written = <<>>
    /\ readback = <<>>
    /\ pstep = "row"
    /\ \E nested \in BOOLEAN : target \in Targets(nested)
    /\ SampleOff
    /\ WriteOff /\ DetectOff /\ ScoreOff /\ FlowOff

\* ingest_to_vm(df, series_id): the series sent are the series a read returns
Ingest ==
    /\ pstep = "row"
    /\ fetch' = ingest_to_vm(target)
    /\ pstep' = "fetched"
    /\ UNCHANGED <<panel, written, readback, target, sampleVars,
                   cacheVars, codecVars, writeVars, detectVars, scoreVars, flowVars>>

IngestNext == Ingest \/ ReadContext

IngestSpec == IngestInit /\ [][IngestNext]_vars

-----------------------------------------------------------------------------
(* Properties of the ingestion (IngestSpec).                               *)

\* the positions (from 0) of the arrays of the row that hold a point
RECURSIVE IndicesWithPoints(_, _)
IndicesWithPoints(variates, i) ==
    IF i > Len(variates) THEN <<>>
    ELSE (IF HasPoints(variates[i]) THEN <<i - 1>> ELSE <<>>) \o IndicesWithPoints(variates, i + 1)

\* the labels of a series other than its variate label
BesideVariate(series) == {q \in PairsOf(series) : q[1] # VariateKey}

\* the series of a row differ only in their variate label, the i-th of them
\* carrying the index idx[i], and no two of them have one identifier
VariatesOf(idx) ==
    /\ Len(fetch) = Len(idx)
    /\ \A i \in DOMAIN fetch :
          /\ <<VariateKey, Str(idx[i])>> \in PairsOf(fetch[i])
          /\ BesideVariate(fetch[i]) = PairsOf(BaseLabels)
          /\ Cardinality(PairsOf(fetch[i])) = Cardinality(PairsOf(BaseLabels)) + 1
    /\ \A i, j \in DOMAIN panel : panel[i] = panel[j] => i = j

\* one series with no variate label
Univariate ==
    /\ Len(fetch) = 1
    /\ PairsOf(fetch[1]) = PairsOf(BaseLabels)

\* C30: a row that holds N parallel value arrays gives N series, with the
\* variate labels 0..N-1 and otherwise equal labels, no two of them with
\* one identifier; a univariate row gives one series with no variate label.
C30_OneSeriesPerVariate ==
    pstep = "panel" =>
        IF target.nested
        THEN VariatesOf([i \in 1..Len(target.values) |-> i - 1])
        ELSE Univariate

\* C30, with the arrays that hold no point left out: a row of N arrays gives
\* one series for each array that holds a point, labelled with the array's
\* position in the row, and a univariate row with a point gives one series
C30_OneSeriesPerVariateWithPoints ==
    pstep = "panel" =>
        IF target.nested
        THEN VariatesOf(IndicesWithPoints(target.values, 1))
        ELSE IF HasPoints(target.values) THEN Univariate ELSE fetch = <<>>

\* a row of three arrays, ingested and read: three identifiers
C30_Witness ==
    /\ pstep = "panel"
    /\ target.nested
    /\ Len(target.values) = 3
    /\ Cardinality({panel[i] : i \in DOMAIN panel}) = 3

-----------------------------------------------------------------------------
(* The samples of a series, scripts/load_boom.py: process_single_series    *)
(* walks the value array, one position after the other.  Times are held in *)
(* milliseconds: now is aligned to the minute and the step is a whole      *)
(* number of seconds, so current_ts is a multiple of half a second and     *)
(* int(current_ts * 1000) is exact.                                        *)

\* how many positions a value array has at most
MaxValues == 3

\* parse_frequency: the seconds of 'S' and of 'T'
Steps == {1, 60}

\* datetime.now(timezone.utc).replace(second=0, microsecond=0), in ms
AlignedNow == 10 * 60000

\* the elements of the arrays walked
SamplePoints ==
    {PyNone, PyNaN, NaN32, PyFloat(<<"0">>), PyFloat(<<"1">>), Float32(<<"1">>),
     NdArray(<<>>), NdArray(<<"1">>)}
SampleArrays == UNION {[1..n -> SamplePoints] : n \in 0..MaxValues}

\* duration = timedelta(seconds=step_seconds * num_points);
\* shifted_start = now - (duration / 2); current_ts = shifted_start.timestamp()
ShiftedStart(num_points, step) == AlignedNow - ((step * 1000 * num_points) \div 2)

\* float(v)
FloatOf(v) == v.val

SampleInit ==
    /\ CacheOff
    /\ CodecOff
    /\ fetch = <<>>
    /\ panel = <<>>
    /\ written = <<>>
    /\ readback = <<>>
    /\ pstep = "off"
    /\ target = <<>>
    /\ values \in SampleArrays
    /\ step_seconds \in Steps
    /\ pos = 1
    /\ current_ts = ShiftedStart(Len(values), step_seconds)
    /\ vm_timestamps = <<>>
    /\ vm_values = <<>>
    /\ nan_count = 0
    /\ WriteOff /\ DetectOff /\ ScoreOff /\ FlowOff

\* for v in values, v passing the test: ts_ms = int(current_ts * 1000);
\* vm_timestamps.append(ts_ms); vm_values.append(float(v));
\* current_ts += step_seconds
AppendSample ==
    /\ pos \in DOMAIN values
    /\ LET v == FirstOrNaN(values[pos])
       IN  /\ IsSample(v)
           /\ vm_timestamps' = Append(vm_timestamps, current_ts)
           /\ vm_values' = Append(vm_values, FloatOf(v))
    /\ current_ts' = current_ts + step_seconds * 1000
    /\ pos' = pos + 1
    /\ UNCHANGED <<fetch, panel, written, readback, pstep, target, values, step_seconds,
                   nan_count,
                   cacheVars, codecVars, writeVars, detectVars, scoreVars, flowVars>>

\* for v in values, v failing the test: nan_count += 1;
\* current_ts += step_seconds
CountMissing ==
    /\ pos \in DOMAIN values
    /\ ~IsSample(FirstOrNaN(values[pos]))
    /\ nan_count' = nan_count + 1
    /\ current_ts' = current_ts + step_seconds * 1000
    /\ pos' = pos + 1
    /\ UNCHANGED <<fetch, panel, written, readback, pstep, target, values, step_seconds,
                   vm_timestamps, vm_values,
                   cacheVars, codecVars, writeVars, detectVars, scoreVars, flowVars>>

SampleNext == AppendSample \/ CountMissing

SampleSpec == SampleInit /\ [][SampleNext]_vars

-----------------------------------------------------------------------------
(* Properties of the samples (SampleSpec).                                 *)

\* the value at a position is missing: None or a nan
IsMissing(v) == ~IsSampleOfAnyFloat(FirstOrNaN(v))

\* the samples sent so far, timestamp and value
Emitted == [i \in DOMAIN vm_timestamps |-> <<vm_timestamps[i], vm_values[i]>>]

\* start + j * step for the position j, counted from 0
TimeOf(j) == ShiftedStart(Len(values), step_seconds) + j * step_seconds * 1000

\* one sample for each value before the position k that is not missing, at
\* the time of its own position and with its own value
RECURSIVE SamplesOfPresent(_)
SamplesOfPresent(k) ==
    IF k = 1 THEN <<>>
    ELSE SamplesOfPresent(k - 1)
         \o (IF IsMissing(values[k - 1]) THEN <<>>
             ELSE << <<TimeOf(k - 2), FloatOf(FirstOrNaN(values[k - 1]))>> >>)

\* C31: a missing value (None or nan) at a position gives no sample, and no
\* zero in its place, and shifts no later sample: the samples emitted are
\* those of the values that are not missing, each at start + j * step for
\* its position j.
C31_MissingDroppedNotShifted == Emitted = SamplesOfPresent(pos)

\* no nan of the array is a numpy.float32
NaNsAreFloats == \A i \in DOMAIN values : values[i] # NaN32

\* C31 for the arrays whose nans are Python floats
MissingDroppedNotShiftedWhenNaNsAreFloats == NaNsAreFloats => C31_MissingDroppedNotShifted

-----------------------------------------------------------------------------
(* Properties of a call and the deployment's call before it (Spec).        *)

\* the call before this one fit a model and saved it without an error, and
\* this call has the same key, class and expiration
SameAsSavedBefore(r) ==
    /\ run[r].prev.saved
    /\ run[r].prev.storage_path = run[r].storage_path
    /\ run[r].prev.model_type = run[r].model_type
    /\ run[r].prev.fit_expiration_hours = run[r].fit_expiration_hours

\* the expiration has not elapsed since that save returned
BeforeExpiration(r) == now - run[r].prev.saved_at < run[r].fit_expiration_hours

\* the call went from its probe to ModelClass.load and has not fit
LoadsAndDoesNotFit(r) ==
    /\ run[r].pc = "load" \/ Count(run[r].calls, "load") = 1
    /\ run[r].pc # "fit"
    /\ Count(run[r].calls, "fit") = 0

\* C32: after a call that resolved to REFIT and whose save succeeded, the
\* next call with the same key, backend and expiration whose probe, made
\* before the expiration has elapsed, raises nothing resolves to LOAD and
\* does not fit again.
C32_RefitThenLoadWithinExpiration ==
    \A r \in Runs :
      (SameAsSavedBefore(r) /\ BeforeExpiration(r) /\ run[r].probed = "ok")
        => LoadsAndDoesNotFit(r)

\* C32 for a class whose save writes and whose load can read what it wrote,
\* when reading the artifact raises nothing
RefitThenLoadWithinExpirationOfWorkingClass ==
    \A r \in Runs :
      (/\ SameAsSavedBefore(r) /\ BeforeExpiration(r) /\ run[r].probed = "ok"
       /\ run[r].model_type = CustomType
       /\ "load_io" \notin run[r].caught)
        => LoadsAndDoesNotFit(r)

\* a second call of that kind has returned a forecast
WorkingClassLoadedAgain ==
    \E r \in Runs :
      /\ SameAsSavedBefore(r) /\ BeforeExpiration(r)
      /\ run[r].model_type = CustomType
      /\ run[r].pc = "done"
      /\ run[r].calls = <<"load", "predict">>

\* the call was made with no storage key and got past the model selector
WithoutKey(r) ==
    /\ run[r].pc \notin {"idle"}
    /\ run[r].err \notin {"ValueError", "NameError"}
    /\ run[r].storage_path = NoPath

\* C34: a call with no storage key resolves to REFIT whatever the expiration
\* and whatever the store holds: it does not probe the store, never calls
\* load and never calls save; it fits and predicts.
C34_NoKeyAlwaysRefits ==
    \A r \in Runs :
      WithoutKey(r) =>
        /\ run[r].probed = "no"
        /\ run[r].caught = {}
        /\ run[r].should_fit
        /\ run[r].pc \in {"probe", "fit", "predict", "done", "raised"}
        /\ Count(run[r].calls, "load") = 0
        /\ Count(run[r].calls, "save") = 0
        /\ run[r].pc \in {"predict", "done"} => Count(run[r].calls, "fit") = 1
        /\ run[r].pc = "done" => run[r].calls = <<"fit", "predict">>

\* a call of run_stateful_model with no key and an expiration other than the
\* default has returned a forecast, a fresh artifact lying in the store
C34_Witness ==
    \E r \in Runs :
      /\ WithoutKey(r)
      /\ run[r].impl = "run_stateful_model"
      /\ run[r].fit_expiration_hours # DefaultExpirationHours
      /\ run[r].pc = "done"
      /\ run[r].calls = <<"fit", "predict">>
      /\ \E k \in Keys : store[k].exists /\ IsFresh(store[k], run[r].fit_expiration_hours)

-----------------------------------------------------------------------------
(* load_and_predict and run_stateful_model side by side: r1 calls the      *)
(* first and r2 the second, with the same class, expiration and kind of    *)
(* key, each on its own key, the two keys holding the same artifact.       *)

TwinKeys == {"k1", "k2"}
KeyOf(r) == IF r = "r1" THEN "k1" ELSE "k2"
ImplOf(r) == IF r = "r1" THEN "load_and_predict" ELSE "run_stateful_model"

\* the locals of the call after model = None; should_fit = True
TwinCall(r, model_type, keyed, exp) ==
    [IdleRun EXCEPT
       !.impl = ImplOf(r), !.model_type = model_type,
       !.storage_path = IF keyed THEN KeyOf(r) ELSE NoPath,
       !.fit_expiration_hours = exp,
       !.pc = "probe", !.ncalls = 1]

TwinInit ==
    /\ now = StartTime
    /\ \E a \in {NoArtifact, OldArtifact}, model_type \in ShippedTypes,
          keyed \in BOOLEAN, exp \in Expirations :
         /\ store = [k \in TwinKeys |-> a]
         /\ run = [r \in Runs |-> TwinCall(r, model_type, keyed, exp)]
    /\ CodecOff
    /\ PanelOff /\ WriteOff /\ DetectOff /\ ScoreOff /\ FlowOff

\* the two calls run to their end, the clock standing still
TwinNext ==
    \/ \E r \in Runs : ProbeNoPath(r)
    \/ \E r \in Runs : ProbeStore(r)
    \/ \E r \in Runs : ProbeRaise(r)
    \/ \E r \in Runs : ProbeNoMtime(r)
    \/ \E r \in Runs : LoadRaise(r)
    \/ \E r \in Runs : FitOk(r)
    \/ \E r \in Runs : FitRaise(r)
    \/ \E r \in Runs : SaveNothing(r)
    \/ \E r \in Runs : SaveOpen(r)
    \/ \E r \in Runs : SaveOpenRaise(r)
    \/ \E r \in Runs : SaveWrite(r)
    \/ \E r \in Runs : SaveWriteRaise(r)
    \/ \E r \in Runs : PredictOk(r)
    \/ \E r \in Runs : PredictRaise(r)

TwinSpec == TwinInit /\ [][TwinNext]_vars

-----------------------------------------------------------------------------
(* Properties of the two functions side by side (TwinSpec).                *)

\* what the store and the model did to a call: how the probe went (no key,
\* no error, an error, no modification time), whether save raised, and
\* which of fit and predict raised
Met(r) ==
    [probed |-> run[r].probed,
     save |-> "save" \in run[r].caught,
     err |-> run[r].err]

Over(r) == run[r].pc \in {"done", "raised"}

\* LOAD when the call went to ModelClass.load, REFIT otherwise
Decision(r) == IF Count(run[r].calls, "load") > 0 THEN "LOAD" ELSE "REFIT"

SameDecisionAndCalls ==
    /\ Decision("r1") = Decision("r2")
    /\ run["r1"].calls = run["r2"].calls
    /\ run["r1"].pc = run["r2"].pc

\* C33: the two functions, having met the same store state and the same
\* errors, have made the same LOAD/REFIT decision and the same sequence of
\* load, fit, save and predict calls.
C33_SameDecisionAndCalls ==
    (Over("r1") /\ Over("r2") /\ Met("r1") = Met("r2")) => SameDecisionAndCalls

\* the artifact's metadata had no modification time and the expiration is
\* longer than the time since the epoch
NoMtimeAndLongExpiration ==
    /\ run["r2"].probed = "nomtime"
    /\ now - 0 < run["r2"].fit_expiration_hours

\* C33 for every case but that one
SameDecisionAndCallsButNoMtimeAndLongExpiration ==
    (Over("r1") /\ Over("r2") /\ Met("r1") = Met("r2") /\ ~NoMtimeAndLongExpiration)
        => SameDecisionAndCalls

\* both functions have met an artifact without a modification time, under
\* the default expiration, and returned a forecast
BothRefitWithoutMtime ==
    /\ run["r1"].pc = "done" /\ run["r2"].pc = "done"
    /\ Met("r1") = Met("r2")
    /\ run["r2"].probed = "nomtime"
    /\ run["r2"].calls = <<"fit", "save", "predict">>

====
